---- MODULE Spec2Model ----
(***************************************************************************)
(* The Meal Outpost lead-qualification agent (src/meal_outpost/agent.py):  *)
(* the ConversationState record, the eleven stage nodes, the routing       *)
(* function and the compiled stage graph, with the Notification Sink       *)
(* (src/meal_outpost/tools.py, send_notification) as a log of the calls,   *)
(* and the Qualification Scorer and the Lookup Functions of tools.py,      *)
(* called on their own under the specification ToolsSpec.                  *)
(*                                                                         *)
(* A Python str is a sequence of one-character strings, so that lower(),   *)
(* title(), strip(), the substring test `in` and the regular expression    *)
(* \d+ are computed on the characters. A character outside ASCII is        *)
(* written by its code point ("U+00E2"). An Optional value is << >> for    *)
(* None and <<v>> for the value v.                                         *)
(***************************************************************************)
EXTENDS Integers, Sequences, FiniteSets, TLC

VARIABLES
    state,       \* the ConversationState of the session
    sent,        \* the calls the Notification Sink has received, in order
    invocation,  \* the latest invocation of the compiled graph
    driver,      \* who drives the session: "none" yet, the "graph", or a caller of the "nodes"
    tool_call,   \* the latest call of a function of tools.py: its arguments and what it returned
    tools_agent, \* the tool-calling agent: its modules, its stored messages and its turn in flight
    pair         \* two sessions in one process: their records, the list objects, the tables, the sink

vars == <<state, sent, invocation, driver, tool_call, tools_agent, pair>>

----------------------------------------------------------------------------
(* Bounds of the model *)

\* the most human messages one session's transcript holds
MaxHuman == 8

\* the recursion limit the compiled graph is invoked with: the number of node
\* executions after which an invocation that has not reached END is aborted
RecursionLimit == 3

----------------------------------------------------------------------------
(* Optional values *)

None == << >>

Some(v) == <<v>>

----------------------------------------------------------------------------
(* Python str operations on sequences of characters *)

ascii_lowercase ==
    <<"a","b","c","d","e","f","g","h","i","j","k","l","m",
      "n","o","p","q","r","s","t","u","v","w","x","y","z">>

ascii_uppercase ==
    <<"A","B","C","D","E","F","G","H","I","J","K","L","M",
      "N","O","P","Q","R","S","T","U","V","W","X","Y","Z">>

digits == <<"0","1","2","3","4","5","6","7","8","9">>

whitespace == {" ", "\t", "\n", "\r"}

Range(f) == {f[i] : i \in DOMAIN f}

IndexOf(c, alphabet) == CHOOSE i \in DOMAIN alphabet : alphabet[i] = c

\* str.lower() of one character; the characters outside ASCII that the texts
\* of this program contain have no other lower-case form
lower_char(c) ==
    IF c \in Range(ascii_uppercase) THEN ascii_lowercase[IndexOf(c, ascii_uppercase)] ELSE c

upper_char(c) ==
    IF c \in Range(ascii_lowercase) THEN ascii_uppercase[IndexOf(c, ascii_lowercase)] ELSE c

is_cased(c) == c \in Range(ascii_lowercase) \cup Range(ascii_uppercase)

\* str.lower()
lower(text) == [i \in 1..Len(text) |-> lower_char(text[i])]

\* str.title(): a cased character is upper-cased when it starts a word (it
\* follows no cased character) and lower-cased otherwise
title(text) ==
    [i \in 1..Len(text) |->
        IF i > 1 /\ is_cased(text[i - 1]) THEN lower_char(text[i]) ELSE upper_char(text[i])]

\* str.strip(): without the leading and trailing whitespace
strip(text) ==
    LET kept == {i \in 1..Len(text) : text[i] \notin whitespace}
    IN  IF kept = {} THEN << >>
        ELSE LET first == CHOOSE i \in kept : \A j \in kept : i <= j
                 last  == CHOOSE i \in kept : \A j \in kept : j <= i
             IN  SubSeq(text, first, last)

\* the substring test `sub in text`
contains(sub, text) ==
    \E i \in 0..(Len(text) - Len(sub)) : SubSeq(text, i + 1, i + Len(sub)) = sub

\* any(word in text for word in words)
contains_any(words, text) == \E k \in DOMAIN words : contains(words[k], text)

\* int(s) of a run of decimal digits
RECURSIVE int(_)
int(s) ==
    IF s = << >> THEN 0
    ELSE 10 * int(SubSeq(s, 1, Len(s) - 1)) + (IndexOf(s[Len(s)], digits) - 1)

\* re.findall(r'\d+', text)[:1]: the first maximal run of digits, None without one
first_number(text) ==
    LET at == {i \in 1..Len(text) : text[i] \in Range(digits)}
    IN  IF at = {} THEN None
        ELSE LET first == CHOOSE i \in at : \A j \in at : i <= j
                 last  == CHOOSE i \in first..Len(text) :
                              /\ \A j \in first..i : j \in at
                              /\ (i + 1) \notin at
             IN  Some(SubSeq(text, first, last))

\* str(n) of an integer, as an f-string writes it
RECURSIVE str_int(_)
str_int(n) ==
    IF n < 0 THEN <<"-">> \o str_int(0 - n)
    ELSE IF n < 10 THEN <<digits[n + 1]>>
    ELSE str_int(n \div 10) \o <<digits[(n % 10) + 1]>>

----------------------------------------------------------------------------
(* The texts of the program *)

\* agent.py:162-169, the welcome prompt
greeting ==
    <<"H","i","!"," ","W","e","l","c","o","m","e"," ","t","o"," ","M","e","a","l"," ","O","u",
      "t","p","o","s","t","."," ","I","'","m"," ","h","e","r","e"," ","t","o"," ","h","e","l",
      "p"," ","y","o","u"," ","f","i","g","u","r","e"," ","o","u","t"," ","i","f"," ","w","e",
      " ","c","a","n"," ","s","u","p","p","o","r","t"," ","y","o","u","r"," ","c","a","t","e",
      "r","i","n","g"," ","n","e","e","d","s",".","\n","\n","W","h","a","t"," ","b","r","i","n",
      "g","s"," ","y","o","u"," ","t","o"," ","M","e","a","l"," ","O","u","t","p","o","s","t",
      " ","t","o","d","a","y","?","\n","\n","A","r","e"," ","y","o","u"," ","l","o","o","k","i",
      "n","g"," ","f","o","r",":","\n","U+00E2","U+20AC","U+00A2"," ","O","n","e","-","t","i",
      "m","e"," ","c","a","t","e","r","i","n","g"," ","f","o","r"," ","a"," ","m","e","e","t",
      "i","n","g"," ","o","r"," ","e","v","e","n","t","?","\n","U+00E2","U+20AC","U+00A2"," ",
      "A"," ","r","e","c","u","r","r","i","n","g"," ","m","e","a","l"," ","p","r","o","g","r",
      "a","m"," ","(","d","a","i","l","y","/","w","e","e","k","l","y"," ","l","u","n","c","h",
      "e","s",")","?","\n","U+00E2","U+20AC","U+00A2"," ","J","u","s","t"," ","e","x","p","l",
      "o","r","i","n","g"," ","y","o","u","r"," ","o","p","t","i","o","n","s","?">>

\* agent.py:195
discovery_response ==
    <<"G","r","e","a","t","!"," ","W","h","e","r","e"," ","a","r","e"," ","y","o","u"," ","l",
      "o","o","k","i","n","g"," ","t","o"," ","g","e","t"," ","c","a","t","e","r","i","n","g",
      "?"," ","W","h","a","t"," ","c","i","t","y"," ","a","r","e"," ","y","o","u"," ","i","n",
      "?">>

\* agent.py:252-254
out_of_area_response ==
    <<"I"," ","a","p","p","r","e","c","i","a","t","e"," ","y","o","u"," ","s","h","a","r","i",
      "n","g"," ","t","h","a","t","!"," ","W","e"," ","d","o","n","'","t"," ","c","u","r","r",
      "e","n","t","l","y"," ","s","e","r","v","e"," ","t","h","a","t"," ","a","r","e","a",",",
      " ","b","u","t"," ","I","'","d"," ","s","t","i","l","l"," ","l","o","v","e"," ","t","o",
      " ","l","e","a","r","n"," ","m","o","r","e"," ","a","b","o","u","t"," ","y","o","u","r",
      " ","n","e","e","d","s","."," ","W","e","'","r","e"," ","a","l","w","a","y","s"," ","e",
      "x","p","a","n","d","i","n","g",","," ","a","n","d"," ","I"," ","c","a","n"," ","c","o",
      "n","n","e","c","t"," ","y","o","u"," ","w","i","t","h"," ","o","u","r"," ","t","e","a",
      "m",".","\n","\n","W","h","e","n"," ","a","r","e"," ","y","o","u"," ","l","o","o","k","i",
      "n","g"," ","t","o"," ","h","a","v","e"," ","c","a","t","e","r","i","n","g","?">>

\* agent.py:256, the text before {city_found}
in_area_prefix ==
    <<"P","e","r","f","e","c","t","!"," ","W","e"," ","s","e","r","v","e"," ">>

\* agent.py:256-258, the text after {city_found}
in_area_suffix ==
    <<" ","a","n","d"," ","h","a","v","e"," ","g","r","e","a","t"," ","r","e","s","t","a","u",
      "r","a","n","t"," ","p","a","r","t","n","e","r","s"," ","t","h","e","r","e",".","\n","\n",
      "W","h","e","n"," ","a","r","e"," ","y","o","u"," ","l","o","o","k","i","n","g"," ","t",
      "o"," ","h","a","v","e"," ","c","a","t","e","r","i","n","g","?">>

\* agent.py:275
timing_response ==
    <<"G","o","t"," ","i","t","!"," ","H","o","w"," ","m","a","n","y"," ","p","e","o","p","l",
      "e"," ","a","r","e"," ","y","o","u"," ","l","o","o","k","i","n","g"," ","t","o"," ","f",
      "e","e","d","?">>

\* agent.py:299
frequency_question ==
    <<"A","n","d"," ","h","o","w"," ","o","f","t","e","n"," ","w","o","u","l","d"," ","y","o",
      "u"," ","n","e","e","d"," ","c","a","t","e","r","i","n","g","?"," ","D","a","i","l","y",
      ","," ","w","e","e","k","l","y",","," ","o","r"," ","s","o","m","e","t","h","i","n","g",
      " ","e","l","s","e","?">>

\* agent.py:302
preferences_question ==
    <<"T","h","a","n","k","s","!"," ","D","o"," ","y","o","u"," ","h","a","v","e"," ","a","n",
      "y"," ","c","u","i","s","i","n","e"," ","p","r","e","f","e","r","e","n","c","e","s"," ",
      "o","r"," ","d","i","e","t","a","r","y"," ","r","e","q","u","i","r","e","m","e","n","t",
      "s","?"," ","(","e",".","g",".",","," ","I","t","a","l","i","a","n",","," ","v","e","g",
      "e","t","a","r","i","a","n",","," ","g","l","u","t","e","n","-","f","r","e","e",")">>

\* agent.py:317
frequency_response ==
    <<"P","e","r","f","e","c","t","!"," ","D","o"," ","y","o","u"," ","h","a","v","e"," ","a",
      "n","y"," ","c","u","i","s","i","n","e"," ","p","r","e","f","e","r","e","n","c","e","s",
      " ","o","r"," ","d","i","e","t","a","r","y"," ","r","e","q","u","i","r","e","m","e","n",
      "t","s","?"," ","(","e",".","g",".",","," ","I","t","a","l","i","a","n",","," ","v","e",
      "g","e","t","a","r","i","a","n",","," ","g","l","u","t","e","n","-","f","r","e","e",")">>

\* agent.py:345, the text before {state["location_city"]}
showcase_prefix ==
    <<"G","r","e","a","t"," ","c","h","o","i","c","e","s","!"," ","I","n"," ">>

\* agent.py:345-353, the text after {state["location_city"]}
showcase_suffix ==
    <<","," ","w","e"," ","w","o","r","k"," ","w","i","t","h"," ","s","o","m","e"," ","e","x",
      "c","e","l","l","e","n","t"," ","r","e","s","t","a","u","r","a","n","t"," ","p","a","r",
      "t","n","e","r","s"," ","t","h","a","t"," ","c","o","u","l","d"," ","b","e"," ","p","e",
      "r","f","e","c","t"," ","f","o","r"," ","y","o","u",":","\n","\n","U+00E2","U+20AC",
      "U+00A2"," ","*","*","B","e","n","'","s"," ","F","a","s","t"," ","F","o","o","d","*","*",
      " ","-"," ","H","e","a","l","t","h","y"," ","d","e","l","i","c","i","o","u","s"," ","b",
      "o","w","l","s"," ","w","i","t","h"," ","a"," ","v","a","r","i","e","t","y"," ","o","f",
      " ","o","p","t","i","o","n","s","\n","U+00E2","U+20AC","U+00A2"," ","*","*","P","o","k",
      "e","w","o","r","k","s","*","*"," ","-"," ","I","n","c","r","e","d","i","b","l","e"," ",
      "p","o","k","e"," ","b","o","w","l","s"," ","w","i","t","h"," ","a"," ","v","a","r","i",
      "e","t","y"," ","o","f"," ","o","p","t","i","o","n","s","\n","U+00E2","U+20AC","U+00A2",
      " ","*","*","S","t","a","r","b","i","r","d"," ","C","h","i","c","k","e","n","*","*"," ",
      "-"," ","D","e","l","i","c","i","o","u","s"," ","c","h","i","c","k","e","n"," ","m","e",
      "a","l","s"," ","\n","\n","P","l","u","s"," ","m","a","n","y"," ","o","t","h","e","r"," ",
      "p","a","r","t","n","e","r","s"," ","i","n"," ","y","o","u","r"," ","a","r","e","a","!",
      " ","W","e"," ","c","a","n"," ","m","a","t","c","h"," ","y","o","u"," ","w","i","t","h",
      " ","t","h","e"," ","p","e","r","f","e","c","t"," ","f","i","t"," ","f","o","r"," ","y",
      "o","u","r"," ","n","e","e","d","s",".","\n","\n","W","o","u","l","d"," ","y","o","u"," ",
      "l","i","k","e"," ","m","e"," ","t","o"," ","c","o","n","n","e","c","t"," ","y","o","u",
      " ","w","i","t","h"," ","o","u","r"," ","t","e","a","m"," ","w","h","o"," ","c","a","n",
      " ","p","r","o","v","i","d","e"," ","p","e","r","s","o","n","a","l","i","z","e","d"," ",
      "r","e","c","o","m","m","e","n","d","a","t","i","o","n","s"," ","a","n","d"," ","p","r",
      "i","c","i","n","g","?">>

\* agent.py:355-357
expansion_response ==
    <<"B","a","s","e","d"," ","o","n"," ","w","h","a","t"," ","y","o","u","'","v","e"," ","s",
      "h","a","r","e","d",","," ","t","h","i","s"," ","s","o","u","n","d","s"," ","l","i","k",
      "e"," ","a"," ","g","r","e","a","t"," ","f","i","t"," ","f","o","r"," ","t","h","e"," ",
      "t","y","p","e"," ","o","f"," ","s","e","r","v","i","c","e"," ","w","e"," ","p","r","o",
      "v","i","d","e","!"," ","E","v","e","n"," ","t","h","o","u","g","h"," ","w","e"," ","d",
      "o","n","'","t"," ","s","e","r","v","e"," ","y","o","u","r"," ","a","r","e","a"," ","y",
      "e","t",","," ","w","e","'","r","e"," ","a","l","w","a","y","s"," ","e","x","p","a","n",
      "d","i","n","g",".","\n","\n","W","o","u","l","d"," ","y","o","u"," ","l","i","k","e"," ",
      "m","e"," ","t","o"," ","c","o","n","n","e","c","t"," ","y","o","u"," ","w","i","t","h",
      " ","o","u","r"," ","t","e","a","m","?"," ","T","h","e","y"," ","c","a","n"," ","d","i",
      "s","c","u","s","s"," ","p","o","t","e","n","t","i","a","l"," ","o","p","t","i","o","n",
      "s"," ","o","r"," ","k","e","e","p"," ","y","o","u"," ","u","p","d","a","t","e","d"," ",
      "o","n"," ","w","h","e","n"," ","w","e"," ","e","x","p","a","n","d"," ","t","o"," ","y",
      "o","u","r"," ","r","e","g","i","o","n",".">>

\* agent.py:374-376
ask_email_response ==
    <<"P","e","r","f","e","c","t","!"," ","W","h","a","t","'","s"," ","t","h","e"," ","b","e",
      "s","t"," ","e","m","a","i","l"," ","a","d","d","r","e","s","s"," ","t","o"," ","r","e",
      "a","c","h"," ","y","o","u"," ","a","t","?","\n","\n","(","O","u","r"," ","t","e","a","m",
      " ","t","y","p","i","c","a","l","l","y"," ","r","e","s","p","o","n","d","s"," ","w","i",
      "t","h","i","n"," ","a"," ","f","e","w"," ","h","o","u","r","s"," ","d","u","r","i","n",
      "g"," ","b","u","s","i","n","e","s","s"," ","h","o","u","r","s",")">>

\* agent.py:380-382
decline_response ==
    <<"N","o"," ","p","r","o","b","l","e","m","!"," ","I","f"," ","y","o","u"," ","c","h","a",
      "n","g","e"," ","y","o","u","r"," ","m","i","n","d",","," ","y","o","u"," ","c","a","n",
      " ","a","l","w","a","y","s"," ","r","e","a","c","h"," ","o","u","r"," ","t","e","a","m",
      " ","a","t"," ","s","a","l","e","s","@","m","e","a","l","o","u","t","p","o","s","t",".",
      "c","o","m",".","\n","\n","I","s"," ","t","h","e","r","e"," ","a","n","y","t","h","i","n",
      "g"," ","e","l","s","e"," ","I"," ","c","a","n"," ","h","e","l","p"," ","y","o","u"," ",
      "u","n","d","e","r","s","t","a","n","d"," ","a","b","o","u","t"," ","M","e","a","l"," ",
      "O","u","t","p","o","s","t","?">>

\* agent.py:433-443, literal piece 1 of the summary f-string
summary_1 ==
    <<"T","h","a","n","k","s",","," ">>

\* agent.py:433-443, literal piece 2 of the summary f-string
summary_2 ==
    <<"!"," ","I","'","v","e"," ","n","o","t","i","f","i","e","d"," ","o","u","r"," ","t","e",
      "a","m"," ","a","b","o","u","t"," ","y","o","u","r"," ","c","a","t","e","r","i","n","g",
      " ","n","e","e","d","s",".","\n","\n","H","e","r","e","'","s"," ","a"," ","q","u","i","c",
      "k"," ","s","u","m","m","a","r","y",":","\n","-"," ","L","o","c","a","t","i","o","n",":",
      " ">>

\* agent.py:433-443, literal piece 3 of the summary f-string
summary_3 ==
    <<"\n","-"," ","N","e","e","d",":"," ">>

\* agent.py:433-443, literal piece 4 of the summary f-string
summary_4 ==
    <<"\n","-"," ","G","r","o","u","p"," ","s","i","z","e",":"," ">>

\* agent.py:433-443, literal piece 5 of the summary f-string
summary_5 ==
    <<" ","p","e","o","p","l","e","\n","-"," ","T","i","m","i","n","g",":"," ">>

\* agent.py:433-443, literal piece 6 of the summary f-string
summary_6 ==
    <<"\n","\n","S","o","m","e","o","n","e"," ","f","r","o","m"," ","o","u","r"," ","t","e","a",
      "m"," ","w","i","l","l"," ","r","e","a","c","h"," ","o","u","t"," ","t","o"," ","y","o",
      "u"," ","w","i","t","h","i","n"," ","2","4"," ","h","o","u","r","s","!","\n","\n","I","s",
      " ","t","h","e","r","e"," ","a","n","y","t","h","i","n","g"," ","e","l","s","e"," ","y",
      "o","u","'","d"," ","l","i","k","e"," ","t","o"," ","k","n","o","w"," ","i","n"," ","t",
      "h","e"," ","m","e","a","n","t","i","m","e","?">>

\* agent.py:436
outside_area_label ==
    <<"O","u","t","s","i","d","e"," ","c","u","r","r","e","n","t"," ","s","e","r","v","i","c",
      "e"," ","a","r","e","a">>

\* agent.py:460-462
closing ==
    <<"P","e","r","f","e","c","t","!"," ","T","h","a","n","k","s"," ","s","o"," ","m","u","c",
      "h"," ","f","o","r"," ","c","h","a","t","t","i","n","g"," ","w","i","t","h"," ","m","e",
      " ","t","o","d","a","y","."," ","O","u","r"," ","t","e","a","m"," ","h","a","s"," ","a",
      "l","l"," ","y","o","u","r"," ","d","e","t","a","i","l","s"," ","a","n","d"," ","w","i",
      "l","l"," ","b","e"," ","i","n"," ","t","o","u","c","h"," ","s","o","o","n",".","\n","\n",
      "H","a","v","e"," ","a"," ","g","r","e","a","t"," ","d","a","y","!"," ","U+00F0","U+0178",
      "U+017D","U+2030">>

\* the text an f-string gives for None
none_repr ==
    <<"N","o","n","e">>

\* agent.py:187
one_time_words ==
    <<
       <<"m","e","e","t","i","n","g">>,
       <<"e","v","e","n","t">>,
       <<"o","n","e","-","t","i","m","e">>,
       <<"o","n","c","e">>
    >>

\* agent.py:189
recurring_words ==
    <<
       <<"r","e","c","u","r","r","i","n","g">>,
       <<"d","a","i","l","y">>,
       <<"w","e","e","k","l","y">>,
       <<"p","r","o","g","r","a","m">>,
       <<"r","e","g","u","l","a","r">>
    >>

\* agent.py:373
affirmative_words ==
    <<
       <<"y","e","s">>,
       <<"s","u","r","e">>,
       <<"p","l","e","a","s","e">>
    >>

\* agent.py:213-239, the items of service_cities in insertion order: <<city, state_abbr>>
service_cities ==
    <<
       <<<<"n","e","w"," ","y","o","r","k">>, "NY">>,
       <<<<"n","y","c">>, "NY">>,
       <<<<"n","e","w"," ","y","o","r","k"," ","c","i","t","y">>, "NY">>,
       <<<<"l","o","s"," ","a","n","g","e","l","e","s">>, "CA">>,
       <<<<"l","a">>, "CA">>,
       <<<<"b","e","l","l","e","v","u","e">>, "WA">>,
       <<<<"b","e","l","l","e","v","u","e"," ","w","a">>, "WA">>,
       <<<<"s","a","n"," ","f","r","a","n","c","i","s","c","o">>, "CA">>,
       <<<<"s","f">>, "CA">>,
       <<<<"b","o","s","t","o","n">>, "MA">>,
       <<<<"b","o","s">>, "MA">>,
       <<<<"w","a","s","h","i","n","g","t","o","n">>, "DC">>,
       <<<<"d","c">>, "DC">>,
       <<<<"s","e","a","t","t","l","e">>, "WA">>,
       <<<<"s","e","a">>, "WA">>,
       <<<<"h","e","r","n","d","o","n">>, "VA">>,
       <<<<"h","e","r","n","d","o","n"," ","v","a">>, "VA">>,
       <<<<"r","e","s","t","o","n">>, "VA">>,
       <<<<"r","e","s","t","o","n"," ","v","a">>, "VA">>,
       <<<<"a","l","e","x","a","n","d","r","i","a">>, "VA">>,
       <<<<"a","l","e","x","a","n","d","r","i","a"," ","v","a">>, "VA">>,
       <<<<"c","o","l","u","m","b","u","s">>, "OH">>,
       <<<<"c","o","l","u","m","b","u","s"," ","o","h">>, "OH">>,
       <<<<"s","a","n"," ","d","i","e","g","o">>, "CA">>,
       <<<<"s","a","n"," ","d","i","e","g","o"," ","c","a">>, "CA">>,
       <<<<"e","m","e","r","y","v","i","l","l","e">>, "CA">>,
       <<<<"e","m","e","r","y","v","i","l","l","e"," ","c","a">>, "CA">>,
       <<<<"s","a","n"," ","j","o","s","e">>, "CA">>,
       <<<<"s","a","n"," ","j","o","s","e"," ","c","a">>, "CA">>,
       <<<<"b","r","i","d","g","e","p","o","r","t">>, "CT">>,
       <<<<"b","r","i","d","g","e","p","o","r","t"," ","c","t">>, "CT">>,
       <<<<"f","a","i","r","f","i","e","l","d">>, "CT">>,
       <<<<"f","a","i","r","f","i","e","l","d"," ","c","t">>, "CT">>,
       <<<<"S","a","c","r","a","m","e","n","t","o">>, "CA">>,
       <<<<"s","a","c","r","a","m","e","n","t","o"," ","c","a">>, "CA">>,
       <<<<"r","a","l","e","i","g","h">>, "NC">>,
       <<<<"r","a","l","e","i","g","h"," ","n","c">>, "NC">>,
       <<<<"d","u","r","h","a","m">>, "NC">>,
       <<<<"d","u","r","h","a","m"," ","n","c">>, "NC">>,
       <<<<"c","a","r","y">>, "NC">>,
       <<<<"c","a","r","y"," ","n","c">>, "NC">>,
       <<<<"c","h","a","r","l","o","t","t","e">>, "NC">>,
       <<<<"c","h","a","r","l","o","t","t","e"," ","n","c">>, "NC">>,
       <<<<"c","u","l","v","e","r"," ","c","i","t","y">>, "CA">>,
       <<<<"c","u","l","v","e","r"," ","c","i","t","y"," ","c","a">>, "CA">>,
       <<<<"s","a","n"," ","m","a","t","e","o">>, "CA">>,
       <<<<"s","a","n"," ","m","a","t","e","o"," ","c","a">>, "CA">>,
       <<<<"s","a","n","t","a"," ","m","o","n","i","c","a">>, "CA">>,
       <<<<"s","a","n","t","a"," ","m","o","n","i","c","a"," ","c","a">>, "CA">>,
       <<<<"s","u","n","n","y","v","a","l","e">>, "CA">>,
       <<<<"s","u","n","n","y","v","a","l","e"," ","c","a">>, "CA">>
    >>

----------------------------------------------------------------------------
(* Messages and the ConversationState *)

AIMessage(content) == [type |-> "ai", content |-> content]

HumanMessage(content) == [type |-> "human", content |-> content]

\* state["messages"][-1].content
last_content(s) == s.messages[Len(s.messages)].content

\* the initial state of a session
initial_state ==
    [messages             |-> << >>,
     user_need            |-> None,
     location_city        |-> None,
     location_state       |-> None,
     timing               |-> None,
     headcount            |-> None,
     frequency            |-> None,
     cuisine_preferences  |-> << >>,
     dietary_requirements |-> << >>,
     is_in_service_area   |-> None,
     meets_minimum        |-> None,
     qualification_status |-> None,
     contact_name         |-> None,
     contact_email        |-> None,
     contact_phone        |-> None,
     conversation_stage   |-> "greeting",
     ready_for_handoff    |-> FALSE,
     notes                |-> << >>]

\* what a node hands back: the state and the Notification Sink calls it made
Return(s, calls) == [state |-> s, notified |-> calls]

\* the truth value Python gives an Optional bool
truthy_bool(v) == v # None /\ v[1]

\* the truth value Python gives an Optional int
truthy_int(v) == v # None /\ v[1] # 0

\* the truth value Python gives an Optional str
truthy_str(v) == v # None /\ v[1] # << >>

----------------------------------------------------------------------------
(* The Notification Sink *)

\* the call send_notification(lead_id, lead_data, routing_type) as the sink sees it
send_notification(lead_id, lead_data, routing_type) ==
    [lead_id |-> lead_id, lead_data |-> lead_data, routing_type |-> routing_type]

----------------------------------------------------------------------------
(* The Qualification Scorer (src/meal_outpost/tools.py) *)

\* tools.py:323
in_area_reason ==
    <<"I","n"," ","s","e","r","v","i","c","e"," ","a","r","e","a">>

\* tools.py:325
out_of_area_reason ==
    <<"O","u","t","s","i","d","e"," ","c","u","r","r","e","n","t"," ","s","e","r","v","i","c",
      "e"," ","a","r","e","a">>

\* tools.py:331, the text before {headcount}
meets_minimum_reason ==
    <<"M","e","e","t","s"," ","m","i","n","i","m","u","m"," ","s","i","z","e"," ","(">>

\* tools.py:334, the text before {headcount}
substantial_reason ==
    <<"B","e","l","o","w"," ","p","r","e","f","e","r","r","e","d"," ","m","i","n","i","m","u",
      "m"," ","b","u","t"," ","s","u","b","s","t","a","n","t","i","a","l"," ","(">>

\* tools.py:336, the text before {headcount}
small_order_reason ==
    <<"S","m","a","l","l"," ","o","r","d","e","r"," ","s","i","z","e"," ","(">>

\* tools.py:331-336, the text after {headcount}
people_suffix ==
    <<" ","p","e","o","p","l","e",")">>

\* tools.py:341
recurring_reason ==
    <<"R","e","c","u","r","r","i","n","g"," ","n","e","e","d"," ","(","h","i","g","h"," ","v",
      "a","l","u","e",")">>

\* tools.py:344
one_time_reason ==
    <<"O","n","e","-","t","i","m","e"," ","e","v","e","n","t">>

\* tools.py:365
qualified_recommendation ==
    <<"R","o","u","t","e"," ","t","o"," ","s","a","l","e","s"," ","t","e","a","m"," ","i","m",
      "m","e","d","i","a","t","e","l","y"," ","-"," ","h","i","g","h","-","p","r","i","o","r",
      "i","t","y"," ","l","e","a","d">>

\* tools.py:367
maybe_recommendation ==
    <<"R","o","u","t","e"," ","t","o"," ","s","a","l","e","s"," ","t","e","a","m"," ","f","o",
      "r"," ","e","v","a","l","u","a","t","i","o","n"," ","-"," ","p","o","t","e","n","t","i",
      "a","l"," ","o","p","p","o","r","t","u","n","i","t","y">>

\* tools.py:369
not_qualified_recommendation ==
    <<"C","a","p","t","u","r","e"," ","i","n","f","o","r","m","a","t","i","o","n"," ","f","o",
      "r"," ","f","u","t","u","r","e"," ","f","o","l","l","o","w","-","u","p"," ","w","h","e",
      "n"," ","e","x","p","a","n","d","i","n","g">>

\* the reason f"<prefix>{headcount} people)"
headcount_reason(prefix, headcount) == prefix \o str_int(headcount) \o people_suffix

_get_recommendation(status, reasons) ==
    IF status = "Qualified" THEN qualified_recommendation
    ELSE IF status = "Maybe" THEN maybe_recommendation
    ELSE not_qualified_recommendation

\* calculate_lead_score with the thresholds tested by > instead of >=
calculate_lead_score_strict_threshold(is_in_service_area, headcount, user_need, min_order_size) ==
    LET area_score == IF is_in_service_area THEN 50 ELSE 0
        area_reasons == IF is_in_service_area THEN <<in_area_reason>> ELSE <<out_of_area_reason>>
        known == headcount # None /\ headcount[1] # 0
        size_score == IF ~known THEN 0
                      ELSE IF headcount[1] >= min_order_size THEN 30
                      ELSE IF headcount[1] >= 10 THEN 15
                      ELSE 0
        size_reasons == IF ~known THEN << >>
                        ELSE IF headcount[1] >= min_order_size
                             THEN <<headcount_reason(meets_minimum_reason, headcount[1])>>
                        ELSE IF headcount[1] >= 10
                             THEN <<headcount_reason(substantial_reason, headcount[1])>>
                        ELSE <<headcount_reason(small_order_reason, headcount[1])>>
        need_score == IF user_need = Some("recurring") THEN 20
                      ELSE IF user_need = Some("one-time") THEN 10
                      ELSE 0
        need_reasons == IF user_need = Some("recurring") THEN <<recurring_reason>>
                        ELSE IF user_need = Some("one-time") THEN <<one_time_reason>>
                        ELSE << >>
        score == area_score + size_score + need_score
        reasons == area_reasons \o size_reasons \o need_reasons
        status == IF score > 70 THEN "Qualified"
                  ELSE IF score > 40 THEN "Maybe"
                  ELSE "Not Qualified"
    IN  [status |-> status, score |-> score, reasons |-> reasons,
         recommendation |-> _get_recommendation(status, reasons)]

\* calculate_lead_score that adds the points of the need without appending its reason
calculate_lead_score_silent_need(is_in_service_area, headcount, user_need, min_order_size) ==
    LET area_score == IF is_in_service_area THEN 50 ELSE 0
        area_reasons == IF is_in_service_area THEN <<in_area_reason>> ELSE <<out_of_area_reason>>
        known == headcount # None /\ headcount[1] # 0
        size_score == IF ~known THEN 0
                      ELSE IF headcount[1] >= min_order_size THEN 30
                      ELSE IF headcount[1] >= 10 THEN 15
                      ELSE 0
        size_reasons == IF ~known THEN << >>
                        ELSE IF headcount[1] >= min_order_size
                             THEN <<headcount_reason(meets_minimum_reason, headcount[1])>>
                        ELSE IF headcount[1] >= 10
                             THEN <<headcount_reason(substantial_reason, headcount[1])>>
                        ELSE <<headcount_reason(small_order_reason, headcount[1])>>
        need_score == IF user_need = Some("recurring") THEN 20
                      ELSE IF user_need = Some("one-time") THEN 10
                      ELSE 0
        need_reasons == << >>
        score == area_score + size_score + need_score
        reasons == area_reasons \o size_reasons \o need_reasons
        status == IF score >= 70 THEN "Qualified"
                  ELSE IF score >= 40 THEN "Maybe"
                  ELSE "Not Qualified"
    IN  [status |-> status, score |-> score, reasons |-> reasons,
         recommendation |-> _get_recommendation(status, reasons)]

\* calculate_lead_score with the points of the two headcount tiers exchanged
calculate_lead_score_swapped_tiers(is_in_service_area, headcount, user_need, min_order_size) ==
    LET area_score == IF is_in_service_area THEN 50 ELSE 0
        area_reasons == IF is_in_service_area THEN <<in_area_reason>> ELSE <<out_of_area_reason>>
        known == headcount # None /\ headcount[1] # 0
        size_score == IF ~known THEN 0
                      ELSE IF headcount[1] >= min_order_size THEN 15
                      ELSE IF headcount[1] >= 10 THEN 30
                      ELSE 0
        size_reasons == IF ~known THEN << >>
                        ELSE IF headcount[1] >= min_order_size
                             THEN <<headcount_reason(meets_minimum_reason, headcount[1])>>
                        ELSE IF headcount[1] >= 10
                             THEN <<headcount_reason(substantial_reason, headcount[1])>>
                        ELSE <<headcount_reason(small_order_reason, headcount[1])>>
        need_score == IF user_need = Some("recurring") THEN 20
                      ELSE IF user_need = Some("one-time") THEN 10
                      ELSE 0
        need_reasons == IF user_need = Some("recurring") THEN <<recurring_reason>>
                        ELSE IF user_need = Some("one-time") THEN <<one_time_reason>>
                        ELSE << >>
        score == area_score + size_score + need_score
        reasons == area_reasons \o size_reasons \o need_reasons
        status == IF score >= 70 THEN "Qualified"
                  ELSE IF score >= 40 THEN "Maybe"
                  ELSE "Not Qualified"
    IN  [status |-> status, score |-> score, reasons |-> reasons,
         recommendation |-> _get_recommendation(status, reasons)]

\* is_in_service_area is a bool, headcount an Optional int, user_need an Optional str
calculate_lead_score(is_in_service_area, headcount, user_need, min_order_size) ==
    LET area_score == IF is_in_service_area THEN 50 ELSE 0
        area_reasons == IF is_in_service_area THEN <<in_area_reason>> ELSE <<out_of_area_reason>>
        known == headcount # None /\ headcount[1] # 0
        size_score == IF ~known THEN 0
                      ELSE IF headcount[1] >= min_order_size THEN 30
                      ELSE IF headcount[1] >= 10 THEN 15
                      ELSE 0
        size_reasons == IF ~known THEN << >>
                        ELSE IF headcount[1] >= min_order_size
                             THEN <<headcount_reason(meets_minimum_reason, headcount[1])>>
                        ELSE IF headcount[1] >= 10
                             THEN <<headcount_reason(substantial_reason, headcount[1])>>
                        ELSE <<headcount_reason(small_order_reason, headcount[1])>>
        need_score == IF user_need = Some("recurring") THEN 20
                      ELSE IF user_need = Some("one-time") THEN 10
                      ELSE 0
        need_reasons == IF user_need = Some("recurring") THEN <<recurring_reason>>
                        ELSE IF user_need = Some("one-time") THEN <<one_time_reason>>
                        ELSE << >>
        score == area_score + size_score + need_score
        reasons == area_reasons \o size_reasons \o need_reasons
        status == IF score >= 70 THEN "Qualified"
                  ELSE IF score >= 40 THEN "Maybe"
                  ELSE "Not Qualified"
    IN  [status |-> status, score |-> score, reasons |-> reasons,
         recommendation |-> _get_recommendation(status, reasons)]

----------------------------------------------------------------------------
(* The Reference Data Store and the Lookup Functions (src/meal_outpost/tools.py) *)

\* tools.py:59-65
area_new_york_city ==
    [city             |-> <<"N","e","w"," ","Y","o","r","k"," ","C","i","t","y">>,
     state            |-> <<"N","Y">>,
     lead_time_hours  |-> 48,
     restaurant_count |-> 25,
     notes            |-> Some(<<"M","a","n","h","a","t","t","a","n",","," ","B","r","o","o",
                                 "k","l","y","n",","," ","Q","u","e","e","n","s"," ","-"," ",
                                 "o","u","t","e","r"," ","b","o","r","o","u","g","h","s"," ",
                                 "m","a","y"," ","h","a","v","e"," ","h","i","g","h","e","r",
                                 " ","d","e","l","i","v","e","r","y"," ","f","e","e","s">>)]

\* tools.py:66-72
area_los_angeles ==
    [city             |-> <<"L","o","s"," ","A","n","g","e","l","e","s">>,
     state            |-> <<"C","A">>,
     lead_time_hours  |-> 48,
     restaurant_count |-> 20,
     notes            |-> Some(<<"G","r","e","a","t","e","r"," ","L","A"," ","a","r","e","a",
                                 " ","i","n","c","l","u","d","i","n","g"," ","S","a","n","t",
                                 "a"," ","M","o","n","i","c","a",","," ","C","u","l","v","e",
                                 "r"," ","C","i","t","y",","," ","D","o","w","n","t","o","w","n">>)]

\* tools.py:73-78
area_chicago ==
    [city             |-> <<"C","h","i","c","a","g","o">>,
     state            |-> <<"I","L">>,
     lead_time_hours  |-> 48,
     restaurant_count |-> 18,
     notes            |-> None]

\* tools.py:79-85
area_san_francisco ==
    [city             |-> <<"S","a","n"," ","F","r","a","n","c","i","s","c","o">>,
     state            |-> <<"C","A">>,
     lead_time_hours  |-> 48,
     restaurant_count |-> 22,
     notes            |-> Some(<<"S","F"," ","p","r","o","p","e","r"," ","a","n","d"," ","n",
                                 "e","a","r","b","y"," ","c","i","t","i","e","s"," ","l","i",
                                 "k","e"," ","O","a","k","l","a","n","d",","," ","B","e","r",
                                 "k","e","l","e","y">>)]

\* tools.py:86-91
area_boston ==
    [city             |-> <<"B","o","s","t","o","n">>,
     state            |-> <<"M","A">>,
     lead_time_hours  |-> 48,
     restaurant_count |-> 15,
     notes            |-> None]

\* tools.py:92-98
area_washington ==
    [city             |-> <<"W","a","s","h","i","n","g","t","o","n">>,
     state            |-> <<"D","C">>,
     lead_time_hours  |-> 48,
     restaurant_count |-> 16,
     notes            |-> Some(<<"D","C",","," ","A","r","l","i","n","g","t","o","n",","," ",
                                 "A","l","e","x","a","n","d","r","i","a"," ","m","e","t","r",
                                 "o"," ","a","r","e","a">>)]

\* tools.py:99-104
area_seattle ==
    [city             |-> <<"S","e","a","t","t","l","e">>,
     state            |-> <<"W","A">>,
     lead_time_hours  |-> 48,
     restaurant_count |-> 14,
     notes            |-> None]

\* tools.py:105-110
area_austin ==
    [city             |-> <<"A","u","s","t","i","n">>,
     state            |-> <<"T","X">>,
     lead_time_hours  |-> 48,
     restaurant_count |-> 12,
     notes            |-> None]

\* tools.py:111-116
area_denver ==
    [city             |-> <<"D","e","n","v","e","r">>,
     state            |-> <<"C","O">>,
     lead_time_hours  |-> 48,
     restaurant_count |-> 10,
     notes            |-> None]

\* tools.py:117-122
area_miami ==
    [city             |-> <<"M","i","a","m","i">>,
     state            |-> <<"F","L">>,
     lead_time_hours  |-> 48,
     restaurant_count |-> 13,
     notes            |-> None]

\* tools.py:58-123, the table of the service areas in its order
SERVICE_AREAS ==
    <<area_new_york_city,
      area_los_angeles,
      area_chicago,
      area_san_francisco,
      area_boston,
      area_washington,
      area_seattle,
      area_austin,
      area_denver,
      area_miami>>

\* tools.py:128-137, Ben's Fast Food of New York City
partner_1 ==
    [name                 |-> <<"B","e","n","'","s"," ","F","a","s","t"," ","F","o","o","d">>,
     city                 |-> <<"N","e","w"," ","Y","o","r","k"," ","C","i","t","y">>,
     state                |-> <<"N","Y">>,
     cuisine_type         |-> <<<<"I","t","a","l","i","a","n">>>>,
     description          |-> <<"H","e","a","l","t","h","y"," ","d","e","l","i","c","i","o","u",
                                "s"," ","b","o","w","l","s"," ","w","i","t","h"," ","a"," ","v",
                                "a","r","i","e","t","y"," ","o","f"," ","o","p","t","i","o","n",
                                "s">>,
     capacity             |-> <<"l","a","r","g","e">>,
     dietary_options      |-> <<<<"v","e","g","e","t","a","r","i","a","n">>, <<"g","l","u","t","e","n","-","f","r","e","e">>>>,
     avg_price_per_person |-> <<"$","2","5","-","3","5">>]

\* tools.py:138-147, Pokeworks of New York City
partner_2 ==
    [name                 |-> <<"P","o","k","e","w","o","r","k","s">>,
     city                 |-> <<"N","e","w"," ","Y","o","r","k"," ","C","i","t","y">>,
     state                |-> <<"N","Y">>,
     cuisine_type         |-> <<<<"H","e","a","l","t","h","y">>, <<"V","e","g","e","t","a","r","i","a","n">>>>,
     description          |-> <<"I","n","c","r","e","d","i","b","l","e"," ","p","o","k","e"," ",
                                "b","o","w","l","s"," ","w","i","t","h"," ","a"," ","v","a","r",
                                "i","e","t","y"," ","o","f"," ","o","p","t","i","o","n","s">>,
     capacity             |-> <<"m","e","d","i","u","m">>,
     dietary_options      |-> <<<<"v","e","g","e","t","a","r","i","a","n">>, <<"v","e","g","a","n">>, <<"g","l","u","t","e","n","-","f","r","e","e">>, <<"d","a","i","r","y","-","f","r","e","e">>>>,
     avg_price_per_person |-> <<"$","1","8","-","2","8">>]

\* tools.py:148-157, Starbird Chicken of New York City
partner_3 ==
    [name                 |-> <<"S","t","a","r","b","i","r","d"," ","C","h","i","c","k","e","n">>,
     city                 |-> <<"N","e","w"," ","Y","o","r","k"," ","C","i","t","y">>,
     state                |-> <<"N","Y">>,
     cuisine_type         |-> <<<<"B","B","Q">>, <<"A","m","e","r","i","c","a","n">>>>,
     description          |-> <<"D","e","l","i","c","i","o","u","s"," ","c","h","i","c","k","e",
                                "n"," ","m","e","a","l","s">>,
     capacity             |-> <<"l","a","r","g","e">>,
     dietary_options      |-> <<<<"g","l","u","t","e","n","-","f","r","e","e">>>>,
     avg_price_per_person |-> <<"$","2","2","-","3","2">>]

\* tools.py:160-169, Pokeworks of Los Angeles
partner_4 ==
    [name                 |-> <<"P","o","k","e","w","o","r","k","s">>,
     city                 |-> <<"L","o","s"," ","A","n","g","e","l","e","s">>,
     state                |-> <<"C","A">>,
     cuisine_type         |-> <<<<"S","e","a","f","o","o","d">>, <<"C","a","l","i","f","o","r","n","i","a"," ","C","u","i","s","i","n","e">>>>,
     description          |-> <<"I","n","c","r","e","d","i","b","l","e"," ","p","o","k","e"," ",
                                "b","o","w","l","s"," ","w","i","t","h"," ","a"," ","v","a","r",
                                "i","e","t","y"," ","o","f"," ","o","p","t","i","o","n","s">>,
     capacity             |-> <<"m","e","d","i","u","m">>,
     dietary_options      |-> <<<<"v","e","g","e","t","a","r","i","a","n">>, <<"g","l","u","t","e","n","-","f","r","e","e">>, <<"p","e","s","c","a","t","a","r","i","a","n">>>>,
     avg_price_per_person |-> <<"$","2","8","-","3","8">>]

\* tools.py:170-179, Starbird Chicken of Los Angeles
partner_5 ==
    [name                 |-> <<"S","t","a","r","b","i","r","d"," ","C","h","i","c","k","e","n">>,
     city                 |-> <<"L","o","s"," ","A","n","g","e","l","e","s">>,
     state                |-> <<"C","A">>,
     cuisine_type         |-> <<<<"M","e","x","i","c","a","n">>, <<"L","a","t","i","n">>>>,
     description          |-> <<"D","e","l","i","c","i","o","u","s"," ","c","h","i","c","k","e",
                                "n"," ","m","e","a","l","s">>,
     capacity             |-> <<"l","a","r","g","e">>,
     dietary_options      |-> <<<<"v","e","g","e","t","a","r","i","a","n">>, <<"v","e","g","a","n">>, <<"g","l","u","t","e","n","-","f","r","e","e">>>>,
     avg_price_per_person |-> <<"$","1","6","-","2","4">>]

\* tools.py:182-191, Curry Up Now of San Francisco
partner_6 ==
    [name                 |-> <<"C","u","r","r","y"," ","U","p"," ","N","o","w">>,
     city                 |-> <<"S","a","n"," ","F","r","a","n","c","i","s","c","o">>,
     state                |-> <<"C","A">>,
     cuisine_type         |-> <<<<"H","e","a","l","t","h","y">>, <<"I","n","d","i","a","n"," ","S","t","r","e","e","t"," ","F","o","o","d">>>>,
     description          |-> <<"M","o","d","e","r","n"," ","I","n","d","i","a","n"," ","s","t",
                                "r","e","e","t"," ","f","o","o","d"," ","w","i","t","h"," ","a",
                                "u","t","h","e","n","t","i","c"," ","f","l","a","v","o","r","s">>,
     capacity             |-> <<"m","e","d","i","u","m">>,
     dietary_options      |-> <<<<"v","e","g","e","t","a","r","i","a","n">>, <<"v","e","g","a","n">>, <<"g","l","u","t","e","n","-","f","r","e","e">>, <<"d","a","i","r","y","-","f","r","e","e">>>>,
     avg_price_per_person |-> <<"$","1","9","-","2","7">>]

\* tools.py:126-192, the table of the restaurant partners in its order
RESTAURANT_PARTNERS ==
    <<partner_1, partner_2, partner_3, partner_4, partner_5, partner_6>>

\* tools.py:228, the text before {city}
not_served_prefix ==
    <<"W","e"," ","d","o","n","'","t"," ","c","u","r","r","e","n","t","l","y"," ","s","e","r",
      "v","e"," ">>

\* tools.py:228, the text after {city}
not_served_suffix ==
    <<","," ","b","u","t"," ","w","e","'","r","e"," ","a","l","w","a","y","s"," ","e","x","p",
      "a","n","d","i","n","g","!">>

\* tools.py:286, the separator of ", ".join
comma_space ==
    <<","," ">>

\* tools.py:280
small ==
    <<"s","m","a","l","l">>

\* tools.py:280
medium ==
    <<"m","e","d","i","u","m">>

\* tools.py:280
large ==
    <<"l","a","r","g","e">>

\* str.upper()
upper(text) == [i \in 1..Len(text) |-> upper_char(text[i])]

\* sep.join(items)
RECURSIVE join(_, _)
join(sep, items) ==
    IF items = << >> THEN << >>
    ELSE IF Len(items) = 1 THEN items[1]
    ELSE items[1] \o sep \o join(sep, Tail(items))

\* the truth value Python gives an Optional list
truthy_list(v) == v # None /\ v[1] # << >>

\* tools.py:217-224, the dict of a served area
served(area) ==
    [serves_area |-> TRUE, city |-> area.city, state |-> area.state,
     lead_time_hours |-> area.lead_time_hours, restaurant_count |-> area.restaurant_count,
     notes |-> area.notes]

\* tools.py:226-229, the dict of a city that is not served, with the city as it was given
not_served(city) ==
    [serves_area |-> FALSE, message |-> not_served_prefix \o city \o not_served_suffix]

\* tools.py:212-229, the loop over SERVICE_AREAS from its k-th entry on
RECURSIVE check_service_area_from(_, _, _, _)
check_service_area_from(k, city_lower, city, area_state) ==
    IF k > Len(SERVICE_AREAS) THEN not_served(city)
    ELSE LET area == SERVICE_AREAS[k]
         IN  IF ~contains(city_lower, lower(area.city))
                 THEN check_service_area_from(k + 1, city_lower, city, area_state)
             ELSE IF truthy_str(area_state) /\ upper(area_state[1]) # area.state
                 THEN check_service_area_from(k + 1, city_lower, city, area_state)
             ELSE served(area)

\* check_service_area that does not test the state
check_service_area_ignores_state(city, area_state) ==
    check_service_area_from(1, strip(lower(city)), city, None)

\* check_service_area that tests the city as it was given, without lower().strip()
check_service_area_raw_city(city, area_state) ==
    check_service_area_from(1, city, city, area_state)

\* city is a str, area_state (the state given) an Optional str
check_service_area(city, area_state) ==
    check_service_area_from(1, strip(lower(city)), city, area_state)

\* tools.py:280-281, capacity_order.get(capacity.lower(), 0)
capacity_order(capacity) ==
    LET size == lower(capacity)
    IN  IF size = small THEN 1 ELSE IF size = medium THEN 2 ELSE IF size = large THEN 3 ELSE 0

\* tools.py:262-265 and 271-274: any(t.lower() in [o.lower() for o in offered] for t in wanted)
any_tag_in(wanted, offered) ==
    \E i \in DOMAIN wanted : \E j \in DOMAIN offered : lower(wanted[i]) = lower(offered[j])

\* tools.py:284-291, the dict of a matching restaurant
partner_dict(restaurant) ==
    [name |-> restaurant.name,
     cuisine |-> join(comma_space, restaurant.cuisine_type),
     description |-> restaurant.description,
     capacity |-> restaurant.capacity,
     dietary_options |-> join(comma_space, restaurant.dietary_options),
     avg_price |-> restaurant.avg_price_per_person]

\* tools.py:257-282, the restaurant passes the city test and the filters given
passes_filters(restaurant, city_lower, cuisine_type, dietary_needs, capacity) ==
    /\ contains(city_lower, lower(restaurant.city))
    /\ truthy_list(cuisine_type) => any_tag_in(cuisine_type[1], restaurant.cuisine_type)
    /\ truthy_list(dietary_needs) => any_tag_in(dietary_needs[1], restaurant.dietary_options)
    /\ truthy_str(capacity) =>
           capacity_order(capacity[1]) <= capacity_order(restaurant.capacity)

\* tools.py:255-296, the loop over RESTAURANT_PARTNERS from its k-th entry on
RECURSIVE get_restaurant_partners_from(_, _, _, _, _, _, _)
get_restaurant_partners_from(k, matches, city_lower, cuisine_type, dietary_needs, capacity, limit) ==
    IF k > Len(RESTAURANT_PARTNERS) THEN matches
    ELSE IF ~passes_filters(RESTAURANT_PARTNERS[k], city_lower, cuisine_type, dietary_needs,
                            capacity)
        THEN get_restaurant_partners_from(k + 1, matches, city_lower, cuisine_type,
                                          dietary_needs, capacity, limit)
    ELSE LET appended == Append(matches, partner_dict(RESTAURANT_PARTNERS[k]))
         IN  IF Len(appended) >= limit THEN appended
             ELSE get_restaurant_partners_from(k + 1, appended, city_lower, cuisine_type,
                                               dietary_needs, capacity, limit)

\* get_restaurant_partners that skips the city test
get_restaurant_partners_any_city(city, cuisine_type, dietary_needs, capacity, limit) ==
    get_restaurant_partners_from(1, << >>, << >>, cuisine_type, dietary_needs, capacity,
                                 limit)

\* city is a str, cuisine_type and dietary_needs Optional lists of str,
\* capacity an Optional str, limit an int
get_restaurant_partners(city, cuisine_type, dietary_needs, capacity, limit) ==
    get_restaurant_partners_from(1, << >>, strip(lower(city)), cuisine_type, dietary_needs,
                                 capacity, limit)

----------------------------------------------------------------------------
(* The stage nodes *)

\* greeting_node without its stage check
greeting_node_unguarded(s) ==
    Return([s EXCEPT !.messages = Append(@, AIMessage(greeting)),
                     !.conversation_stage = "discovery"], << >>)

greeting_node(s) ==
    IF s.conversation_stage # "greeting" THEN Return(s, << >>)
    ELSE Return([s EXCEPT !.messages = Append(@, AIMessage(greeting)),
                          !.conversation_stage = "discovery"], << >>)

\* discovery_node looking for the recurring words first
discovery_node_recurring_first(s) ==
    IF s.conversation_stage # "discovery" THEN Return(s, << >>)
    ELSE LET last_message == last_content(s)
             need == IF contains_any(recurring_words, lower(last_message)) THEN "recurring"
                     ELSE IF contains_any(one_time_words, lower(last_message)) THEN "one-time"
                     ELSE "exploring"
         IN  Return([s EXCEPT !.user_need = Some(need),
                              !.messages = Append(@, AIMessage(discovery_response)),
                              !.conversation_stage = "location"], << >>)

discovery_node(s) ==
    IF s.conversation_stage # "discovery" THEN Return(s, << >>)
    ELSE LET last_message == last_content(s)
             need == IF contains_any(one_time_words, lower(last_message)) THEN "one-time"
                     ELSE IF contains_any(recurring_words, lower(last_message)) THEN "recurring"
                     ELSE "exploring"
         IN  Return([s EXCEPT !.user_need = Some(need),
                              !.messages = Append(@, AIMessage(discovery_response)),
                              !.conversation_stage = "location"], << >>)

\* location_node that records nothing when it finds no city in the message
location_node_silent_miss(s) ==
    IF s.conversation_stage # "location" THEN Return(s, << >>)
    ELSE LET last_message == lower(last_content(s))
             found == {k \in DOMAIN service_cities : contains(service_cities[k][1], last_message)}
         IN  IF found = {}
             THEN Return([s EXCEPT !.messages = Append(@, AIMessage(out_of_area_response)),
                                   !.conversation_stage = "timing"], << >>)
             ELSE LET k == CHOOSE i \in found : \A j \in found : i <= j
                      city_found == title(service_cities[k][1])
                  IN  Return([s EXCEPT !.location_city = Some(city_found),
                                       !.location_state = Some(service_cities[k][2]),
                                       !.is_in_service_area = Some(TRUE),
                                       !.messages = Append(@,
                                           AIMessage(in_area_prefix \o city_found \o in_area_suffix)),
                                       !.conversation_stage = "timing"], << >>)

\* location_node that keeps the text of a message in which it finds no city as the city
location_node_keeps_city(s) ==
    IF s.conversation_stage # "location" THEN Return(s, << >>)
    ELSE LET last_message == lower(last_content(s))
             found == {k \in DOMAIN service_cities : contains(service_cities[k][1], last_message)}
         IN  IF found = {}
             THEN Return([s EXCEPT !.location_city = Some(title(last_message)),
                                   !.is_in_service_area = Some(FALSE),
                                   !.messages = Append(@, AIMessage(out_of_area_response)),
                                   !.conversation_stage = "timing"], << >>)
             ELSE LET k == CHOOSE i \in found : \A j \in found : i <= j
                      city_found == title(service_cities[k][1])
                  IN  Return([s EXCEPT !.location_city = Some(city_found),
                                       !.location_state = Some(service_cities[k][2]),
                                       !.is_in_service_area = Some(TRUE),
                                       !.messages = Append(@,
                                           AIMessage(in_area_prefix \o city_found \o in_area_suffix)),
                                       !.conversation_stage = "timing"], << >>)

location_node(s) ==
    IF s.conversation_stage # "location" THEN Return(s, << >>)
    ELSE LET last_message == lower(last_content(s))
             found == {k \in DOMAIN service_cities : contains(service_cities[k][1], last_message)}
         IN  IF found = {}
             THEN Return([s EXCEPT !.is_in_service_area = Some(FALSE),
                                   !.messages = Append(@, AIMessage(out_of_area_response)),
                                   !.conversation_stage = "timing"], << >>)
             ELSE LET k == CHOOSE i \in found : \A j \in found : i <= j
                      city_found == title(service_cities[k][1])
                  IN  Return([s EXCEPT !.location_city = Some(city_found),
                                       !.location_state = Some(service_cities[k][2]),
                                       !.is_in_service_area = Some(TRUE),
                                       !.messages = Append(@,
                                           AIMessage(in_area_prefix \o city_found \o in_area_suffix)),
                                       !.conversation_stage = "timing"], << >>)

timing_node(s) ==
    IF s.conversation_stage # "timing" THEN Return(s, << >>)
    ELSE Return([s EXCEPT !.timing = Some(last_content(s)),
                          !.messages = Append(@, AIMessage(timing_response)),
                          !.conversation_stage = "scale"], << >>)

\* the size an order is preferred to have at least (agent.py:295)
minimum_order_size == 20

\* scale_node asking every user for the frequency
scale_node_always_frequency(s) ==
    IF s.conversation_stage # "scale" THEN Return(s, << >>)
    ELSE LET numbers == first_number(last_content(s))
             counted == IF numbers # None
                        THEN [s EXCEPT !.headcount = Some(int(numbers[1])),
                                       !.meets_minimum = Some(int(numbers[1]) >= minimum_order_size)]
                        ELSE s
         IN  Return([counted EXCEPT !.conversation_stage = "frequency",
                                    !.messages = Append(@, AIMessage(frequency_question))], << >>)

\* scale_node comparing the headcount with > in place of >=
scale_node_strict(s) ==
    IF s.conversation_stage # "scale" THEN Return(s, << >>)
    ELSE LET numbers == first_number(last_content(s))
             counted == IF numbers # None
                        THEN [s EXCEPT !.headcount = Some(int(numbers[1])),
                                       !.meets_minimum = Some(int(numbers[1]) > minimum_order_size)]
                        ELSE s
         IN  IF counted.user_need = Some("recurring")
             THEN Return([counted EXCEPT !.conversation_stage = "frequency",
                                         !.messages = Append(@, AIMessage(frequency_question))], << >>)
             ELSE Return([counted EXCEPT !.conversation_stage = "preferences",
                                         !.messages = Append(@, AIMessage(preferences_question))], << >>)

\* scale_node that asks again, and stays in its stage, when the message has no number
scale_node_asks_again(s) ==
    IF s.conversation_stage # "scale" THEN Return(s, << >>)
    ELSE LET numbers == first_number(last_content(s))
             counted == IF numbers # None
                        THEN [s EXCEPT !.headcount = Some(int(numbers[1])),
                                       !.meets_minimum = Some(int(numbers[1]) >= minimum_order_size)]
                        ELSE s
         IN  IF numbers = None
             THEN Return([s EXCEPT !.messages = Append(@, AIMessage(timing_response))], << >>)
             ELSE IF counted.user_need = Some("recurring")
             THEN Return([counted EXCEPT !.conversation_stage = "frequency",
                                         !.messages = Append(@, AIMessage(frequency_question))], << >>)
             ELSE Return([counted EXCEPT !.conversation_stage = "preferences",
                                         !.messages = Append(@, AIMessage(preferences_question))], << >>)

scale_node(s) ==
    IF s.conversation_stage # "scale" THEN Return(s, << >>)
    ELSE LET numbers == first_number(last_content(s))
             counted == IF numbers # None
                        THEN [s EXCEPT !.headcount = Some(int(numbers[1])),
                                       !.meets_minimum = Some(int(numbers[1]) >= minimum_order_size)]
                        ELSE s
         IN  IF counted.user_need = Some("recurring")
             THEN Return([counted EXCEPT !.conversation_stage = "frequency",
                                         !.messages = Append(@, AIMessage(frequency_question))], << >>)
             ELSE Return([counted EXCEPT !.conversation_stage = "preferences",
                                         !.messages = Append(@, AIMessage(preferences_question))], << >>)

frequency_node(s) ==
    IF s.conversation_stage # "frequency" THEN Return(s, << >>)
    ELSE Return([s EXCEPT !.frequency = Some(last_content(s)),
                          !.messages = Append(@, AIMessage(frequency_response)),
                          !.conversation_stage = "preferences"], << >>)

preferences_node(s) ==
    IF s.conversation_stage # "preferences" THEN Return(s, << >>)
    ELSE Return([s EXCEPT !.cuisine_preferences = <<last_content(s)>>,
                          !.conversation_stage = "restaurant_partners"], << >>)

\* an f-string's text for an Optional str
str_text(v) == IF v = None THEN none_repr ELSE v[1]

get_restaurant_partners_node(s) ==
    IF s.conversation_stage # "restaurant_partners" THEN Return(s, << >>)
    ELSE LET response == IF truthy_bool(s.is_in_service_area)
                         THEN showcase_prefix \o str_text(s.location_city) \o showcase_suffix
                         ELSE expansion_response
         IN  Return([s EXCEPT !.messages = Append(@, AIMessage(response)),
                              !.conversation_stage = "contact_capture"], << >>)

\* contact_capture_node moving on only when the whole message is one of the words
contact_capture_node_exact(s) ==
    IF s.conversation_stage # "contact_capture" THEN Return(s, << >>)
    ELSE IF lower(last_content(s)) \in Range(affirmative_words)
         THEN Return([s EXCEPT !.messages = Append(@, AIMessage(ask_email_response)),
                               !.conversation_stage = "email_collection"], << >>)
         ELSE Return([s EXCEPT !.messages = Append(@, AIMessage(decline_response)),
                               !.conversation_stage = "end"], << >>)

\* contact_capture_node computing the qualification itself, before the email is known
contact_capture_node_qualifies(s) ==
    IF s.conversation_stage # "contact_capture" THEN Return(s, << >>)
    ELSE IF contains_any(affirmative_words, lower(last_content(s)))
         THEN Return([s EXCEPT !.messages = Append(@, AIMessage(ask_email_response)),
                               !.qualification_status = Some("Maybe"),
                               !.conversation_stage = "email_collection"], << >>)
         ELSE Return([s EXCEPT !.messages = Append(@, AIMessage(decline_response)),
                               !.conversation_stage = "end"], << >>)

\* contact_capture_node marking the session ready for handoff once the user consents
contact_capture_node_ready(s) ==
    IF s.conversation_stage # "contact_capture" THEN Return(s, << >>)
    ELSE IF contains_any(affirmative_words, lower(last_content(s)))
         THEN Return([s EXCEPT !.messages = Append(@, AIMessage(ask_email_response)),
                               !.ready_for_handoff = TRUE,
                               !.conversation_stage = "email_collection"], << >>)
         ELSE Return([s EXCEPT !.messages = Append(@, AIMessage(decline_response)),
                               !.conversation_stage = "end"], << >>)

contact_capture_node(s) ==
    IF s.conversation_stage # "contact_capture" THEN Return(s, << >>)
    ELSE IF contains_any(affirmative_words, lower(last_content(s)))
         THEN Return([s EXCEPT !.messages = Append(@, AIMessage(ask_email_response)),
                               !.conversation_stage = "email_collection"], << >>)
         ELSE Return([s EXCEPT !.messages = Append(@, AIMessage(decline_response)),
                               !.conversation_stage = "end"], << >>)

\* the headcount from which an out-of-area lead is still a "Maybe" (agent.py:401)
substantial_headcount == 10

\* agent.py:398-404, the status email_collection_node stores
qual_status(s) ==
    IF truthy_bool(s.is_in_service_area) /\ truthy_bool(s.meets_minimum) THEN "Qualified"
    ELSE IF truthy_bool(s.is_in_service_area)
            \/ (truthy_int(s.headcount) /\ s.headcount[1] >= substantial_headcount) THEN "Maybe"
    ELSE "Not Qualified"

\* agent.py:413-428, the lead record handed to the Notification Sink
notification_data(s, email) ==
    [contact       |-> [email |-> email],
     requirements  |-> [location |-> [city |-> s.location_city, state |-> s.location_state],
                        need_type |-> s.user_need,
                        headcount |-> s.headcount,
                        timing |-> s.timing,
                        frequency |-> s.frequency,
                        cuisine_preferences |-> s.cuisine_preferences],
     qualification |-> [status |-> qual_status(s),
                        in_service_area |-> s.is_in_service_area,
                        meets_minimum |-> s.meets_minimum]]

\* the words of user_need as an f-string writes them
need_text(v) ==
    IF v = None THEN none_repr
    ELSE IF v[1] = "one-time" THEN <<"o","n","e","-","t","i","m","e">>
    ELSE IF v[1] = "recurring" THEN <<"r","e","c","u","r","r","i","n","g">>
    ELSE <<"e","x","p","l","o","r","i","n","g">>

\* agent.py:433-443, the summary shown to the user
summary(s, email) ==
    summary_1 \o email
    \o summary_2 \o (IF truthy_str(s.location_city) THEN s.location_city[1] ELSE outside_area_label)
    \o summary_3 \o need_text(s.user_need)
    \o summary_4 \o (IF s.headcount = None THEN none_repr ELSE str_int(s.headcount[1]))
    \o summary_5 \o str_text(s.timing)
    \o summary_6

\* email_collection_node handing the sink the message as it was typed, untrimmed
email_collection_node_raw_email(s) ==
    IF s.conversation_stage # "email_collection" THEN Return(s, << >>)
    ELSE LET email == strip(last_content(s))
             qualified == [s EXCEPT !.contact_email = Some(email),
                                    !.qualification_status = Some(qual_status(s)),
                                    !.ready_for_handoff = TRUE]
         IN  Return([qualified EXCEPT !.messages = Append(@, AIMessage(summary(qualified, email))),
                                      !.conversation_stage = "handoff"],
                    <<send_notification("temp-lead-id", notification_data(s, last_content(s)),
                                        "general_sales")>>)

email_collection_node(s) ==
    IF s.conversation_stage # "email_collection" THEN Return(s, << >>)
    ELSE LET email == strip(last_content(s))
             qualified == [s EXCEPT !.contact_email = Some(email),
                                    !.qualification_status = Some(qual_status(s)),
                                    !.ready_for_handoff = TRUE]
         IN  Return([qualified EXCEPT !.messages = Append(@, AIMessage(summary(qualified, email))),
                                      !.conversation_stage = "handoff"],
                    <<send_notification("temp-lead-id", notification_data(s, email),
                                        "general_sales")>>)

\* agent.py:395-431, email_collection_node when send_notification raises: the
\* exception leaves the node at the call, after the fields the node has
\* already written into the caller's state and before the summary and the stage
email_collection_node_interrupted(s) ==
    LET email == strip(last_content(s))
    IN  Return([s EXCEPT !.contact_email = Some(email),
                         !.qualification_status = Some(qual_status(s)),
                         !.ready_for_handoff = TRUE],
               <<send_notification("temp-lead-id", notification_data(s, email),
                                   "general_sales")>>)

\* handoff_node without its stage check
handoff_node_unguarded(s) ==
    Return([s EXCEPT !.messages = Append(@, AIMessage(closing)),
                     !.conversation_stage = "complete"], << >>)

\* handoff_node notifying the sales team once more, as its docstring words it
handoff_node_notifies(s) ==
    IF s.conversation_stage # "handoff" THEN Return(s, << >>)
    ELSE Return([s EXCEPT !.messages = Append(@, AIMessage(closing)),
                          !.conversation_stage = "complete"],
                <<send_notification("temp-lead-id",
                                    notification_data(s, s.contact_email[1]), "general_sales")>>)

handoff_node(s) ==
    IF s.conversation_stage # "handoff" THEN Return(s, << >>)
    ELSE Return([s EXCEPT !.messages = Append(@, AIMessage(closing)),
                          !.conversation_stage = "complete"], << >>)

----------------------------------------------------------------------------
(* Routing and the compiled graph *)

END == "__end__"

\* the nodes build_graph registers, and the stage each one implements
Nodes ==
    {"greeting", "discovery", "location", "timing", "scale", "frequency", "preferences",
     "restaurant_partners", "contact_capture", "email_collection", "handoff"}

\* the function registered under a node name
node(n, s) ==
    CASE n = "greeting"            -> greeting_node(s)
      [] n = "discovery"           -> discovery_node(s)
      [] n = "location"            -> location_node(s)
      [] n = "timing"              -> timing_node(s)
      [] n = "scale"               -> scale_node(s)
      [] n = "frequency"           -> frequency_node(s)
      [] n = "preferences"         -> preferences_node(s)
      [] n = "restaurant_partners" -> get_restaurant_partners_node(s)
      [] n = "contact_capture"     -> contact_capture_node(s)
      [] n = "email_collection"    -> email_collection_node(s)
      [] n = "handoff"             -> handoff_node(s)

route_conversation(s) ==
    LET stage == s.conversation_stage
    IN  CASE stage = "greeting"            -> "discovery"
          [] stage = "discovery"           -> "location"
          [] stage = "location"            -> "timing"
          [] stage = "timing"              -> "scale"
          [] stage = "scale"               -> IF s.user_need = Some("recurring")
                                              THEN "frequency" ELSE "preferences"
          [] stage = "frequency"           -> "preferences"
          [] stage = "preferences"         -> "restaurant_partners"
          [] stage = "restaurant_showcase" -> "contact_capture"
          [] stage = "contact_capture"     -> "email_collection"
          [] stage = "email_collection"    -> "handoff"
          [] stage = "handoff"             -> END
          [] stage = "complete"            -> END
          [] stage = "end"                 -> END
          [] OTHER                         -> END

\* the keys of the stage_map of route_conversation (agent.py:478-492)
stage_map_keys ==
    {"greeting", "discovery", "location", "timing", "scale", "frequency", "preferences",
     "restaurant_showcase", "contact_capture", "email_collection", "handoff", "complete",
     "end"}

entry_point == "greeting"

idle ==
    [status |-> "idle", node |-> END, supersteps |-> 0,
     transitions |-> 0, replies |-> 0, notifications |-> 0]

----------------------------------------------------------------------------
(* The user's messages: q1..q8 are the inputs of the scenario of the qualified
   recurring lead, p1..p7 those of the lead in Portland, Oregon; the others
   exercise the remaining branches of the nodes *)

\* 'I need daily lunch catering'
q1 ==
    <<"I"," ","n","e","e","d"," ","d","a","i","l","y"," ","l","u","n","c","h"," ","c","a","t",
      "e","r","i","n","g">>

\* 'Manhattan, New York City'
q2 ==
    <<"M","a","n","h","a","t","t","a","n",","," ","N","e","w"," ","Y","o","r","k"," ","C","i",
      "t","y">>

\* 'next month'
q3 ==
    <<"n","e","x","t"," ","m","o","n","t","h">>

\* '45 people'
q4 ==
    <<"4","5"," ","p","e","o","p","l","e">>

\* 'Daily, Monday-Friday'
q5 ==
    <<"D","a","i","l","y",","," ","M","o","n","d","a","y","-","F","r","i","d","a","y">>

\* 'Italian, Asian'
q6 ==
    <<"I","t","a","l","i","a","n",","," ","A","s","i","a","n">>

\* 'yes connect me'
q7 ==
    <<"y","e","s"," ","c","o","n","n","e","c","t"," ","m","e">>

\* 'sarah.johnson@techcorp.com'
q8 ==
    <<"s","a","r","a","h",".","j","o","h","n","s","o","n","@","t","e","c","h","c","o","r","p",
      ".","c","o","m">>

\* 'I need catering for a company event'
p1 ==
    <<"I"," ","n","e","e","d"," ","c","a","t","e","r","i","n","g"," ","f","o","r"," ","a"," ",
      "c","o","m","p","a","n","y"," ","e","v","e","n","t">>

\* 'Portland, Oregon'
p2 ==
    <<"P","o","r","t","l","a","n","d",","," ","O","r","e","g","o","n">>

\* 'Next Friday'
p3 ==
    <<"N","e","x","t"," ","F","r","i","d","a","y">>

\* 'About 75 people'
p4 ==
    <<"A","b","o","u","t"," ","7","5"," ","p","e","o","p","l","e">>

\* 'Mexican or Mediterranean food'
p5 ==
    <<"M","e","x","i","c","a","n"," ","o","r"," ","M","e","d","i","t","e","r","r","a","n","e",
      "a","n"," ","f","o","o","d">>

\* "Yes, I'd like to stay in touch about expansion"
p6 ==
    <<"Y","e","s",","," ","I","'","d"," ","l","i","k","e"," ","t","o"," ","s","t","a","y"," ",
      "i","n"," ","t","o","u","c","h"," ","a","b","o","u","t"," ","e","x","p","a","n","s","i",
      "o","n">>

\* 'mike.chen@startup.co'
p7 ==
    <<"m","i","k","e",".","c","h","e","n","@","s","t","a","r","t","u","p",".","c","o">>

\* the empty message
blank ==
<< >>

\* ' Sure, 12 weekly in Boston! '
padded ==
    <<" ","S","u","r","e",","," ","1","2"," ","w","e","e","k","l","y"," ","i","n"," ","B","o",
      "s","t","o","n","!"," ">>

\* 'a single meeting'
r1 ==
    <<"a"," ","s","i","n","g","l","e"," ","m","e","e","t","i","n","g">>

\* 'Austin, Texas'
r2 ==
    <<"A","u","s","t","i","n",","," ","T","e","x","a","s">>

\* 'in 19 days'
r3 ==
    <<"i","n"," ","1","9"," ","d","a","y","s">>

\* '75'
r4 ==
    <<"7","5">>

\* 'vegan'
r5 ==
    <<"v","e","g","a","n">>

\* 'YES PLEASE'
r6 ==
    <<"Y","E","S"," ","P","L","E","A","S","E">>

\* '\tbob@x.io\n'
r7 ==
    <<"\t","b","o","b","@","x",".","i","o","\n">>

\* 'just browsing'
b1 ==
    <<"j","u","s","t"," ","b","r","o","w","s","i","n","g">>

\* 'Boise'
b2 ==
    <<"B","o","i","s","e">>

\* 'on the 20th'
b3 ==
    <<"o","n"," ","t","h","e"," ","2","0","t","h">>

\* 'about 5 of us'
b4 ==
    <<"a","b","o","u","t"," ","5"," ","o","f"," ","u","s">>

\* 'anything'
b5 ==
    <<"a","n","y","t","h","i","n","g">>

\* 'no thanks'
b6 ==
    <<"n","o"," ","t","h","a","n","k","s">>

\* '0'
zero ==
    <<"0">>

\* the session of the qualified recurring lead
Script1 == <<q1, q2, q3, q4, q5, q6, q7, q8>>

\* the session of the lead outside the service area
Script2 == <<p1, p2, p3, p4, p5, p6, p7>>

\* the session of a one-time lead in a city the table does not match
Script3 == <<r1, r2, r3, r4, r5, r6, r7>>

\* the session of a small lead who declines the contact
Script4 == <<b1, b2, b3, b4, b5, b6>>

\* the session of a user who sends empty messages, counts nobody and accepts the contact
Script5 == <<blank, blank, blank, zero, blank, q7, blank>>

Scripts == {Script1, Script2, Script3, Script4, Script5}

\* the messages a user may send at any moment
Generic == {padded}

\* the contents of the human messages of a transcript, in order
human_texts(messages) ==
    LET at == SelectSeq([i \in 1..Len(messages) |-> i], LAMBDA i : messages[i].type = "human")
    IN  [k \in 1..Len(at) |-> messages[at[k]].content]

IsPrefix(a, b) == Len(a) <= Len(b) /\ SubSeq(b, 1, Len(a)) = a

\* what the user may send next: a generic message, or the next message of a
\* scripted session the transcript has followed so far
Inputs(messages) ==
    LET said == human_texts(messages)
    IN  Generic \cup {script[Len(said) + 1] :
                        script \in {sc \in Scripts :
                                      Len(said) < Len(sc) /\ IsPrefix(said, sc)}}

----------------------------------------------------------------------------
(* The messages that probe one stage: d1..d7 the discovery stage, c1..c6 the
   contact_capture stage, l1 and l2 and the names of the table the location stage *)

\* 'weekly team meeting'
d1 ==
    <<"w","e","e","k","l","y"," ","t","e","a","m"," ","m","e","e","t","i","n","g">>

\* 'DAILY LUNCH PROGRAM'
d2 ==
    <<"D","A","I","L","Y"," ","L","U","N","C","H"," ","P","R","O","G","R","A","M">>

\* 'A Regular Thing'
d3 ==
    <<"A"," ","R","e","g","u","l","a","r"," ","T","h","i","n","g">>

\* 'ONCE'
d4 ==
    <<"O","N","C","E">>

\* 'One-Time order'
d5 ==
    <<"O","n","e","-","T","i","m","e"," ","o","r","d","e","r">>

\* 'just looking'
d6 ==
    <<"j","u","s","t"," ","l","o","o","k","i","n","g">>

\* 'Eventually, maybe'
d7 ==
    <<"E","v","e","n","t","u","a","l","l","y",","," ","m","a","y","b","e">>

\* 'YES'
c1 ==
    <<"Y","E","S">>

\* 'Sure thing'
c2 ==
    <<"S","u","r","e"," ","t","h","i","n","g">>

\* 'No thanks'
c3 ==
    <<"N","o"," ","t","h","a","n","k","s">>

\* 'Please do'
c4 ==
    <<"P","l","e","a","s","e"," ","d","o">>

\* 'yesterday'
c5 ==
    <<"y","e","s","t","e","r","d","a","y">>

\* 'nope'
c6 ==
    <<"n","o","p","e">>

\* 'Portland'
l1 ==
    <<"P","o","r","t","l","a","n","d">>

\* 'Salt Lake'
l2 ==
    <<"S","a","l","t"," ","L","a","k","e">>

\* 'We are in '
we_are_in ==
    <<"W","e"," ","a","r","e"," ","i","n"," ">>

DiscoveryTexts == {d1, d2, d3, d4, d5, d6, d7}

ContactTexts == {c1, c2, c3, c4, c5, c6, blank}

\* every key of the table of location_node in lower case, in upper case, and
\* capitalised within a sentence; and two cities the table does not hold
LocationTexts ==
    {l1, l2}
    \cup {lower(service_cities[k][1]) : k \in DOMAIN service_cities}
    \cup {upper(service_cities[k][1]) : k \in DOMAIN service_cities}
    \cup {we_are_in \o title(service_cities[k][1]) : k \in DOMAIN service_cities}

\* the message of the qualified recurring lead in a stage
DefaultText(stage) ==
    CASE stage = "discovery"        -> q1
      [] stage = "location"         -> q2
      [] stage = "timing"           -> q3
      [] stage = "scale"            -> q4
      [] stage = "frequency"        -> q5
      [] stage = "preferences"      -> q6
      [] stage = "contact_capture"  -> q7
      [] stage = "email_collection" -> q8
      [] OTHER                      -> q1

\* the messages that probe a stage
StageTexts(stage) ==
    CASE stage = "discovery"       -> DiscoveryTexts
      [] stage = "location"        -> LocationTexts
      [] stage = "contact_capture" -> ContactTexts
      [] OTHER                     -> {}

\* what the user of a probing session may send: the message of the qualified
\* recurring lead, or, while the session has followed that lead, a message
\* that probes the stage
ProbeInputs(s) ==
    {DefaultText(s.conversation_stage)}
    \cup IF IsPrefix(human_texts(s.messages), Script1)
         THEN StageTexts(s.conversation_stage) ELSE {}

----------------------------------------------------------------------------
(* The tool-calling agent (src/tools_agent/meal_outpost): the load of the
   reference data when tools.py is imported, and the agent graph of agent.py.
   A message is a record of its type, its content and its tool calls (the names
   of the tools asked for; none for a message without the attribute). *)

\* the most imports of a module of the tool-calling agent one process attempts
MaxImports == 2

\* the most turns of a conversation with the tool-calling agent
MaxTurns == 2

\* the most rounds of tool calls the model asks for within one turn
MaxToolRounds == 2

\* what restaurant_data.json may be when tools.py is imported: absent, not
\* readable, not JSON, a JSON value that is not an object, an object without
\* one or both of the tables, or an object with both
FileConditions ==
    {"missing", "unreadable", "invalid_json", "not_an_object", "no_service_areas",
     "no_restaurant_partners", "no_tables", "complete"}

\* the keys of the object a file holds
file_keys(condition) ==
    CASE condition = "complete"               -> {"service_areas", "restaurant_partners"}
      [] condition = "no_service_areas"       -> {"restaurant_partners"}
      [] condition = "no_restaurant_partners" -> {"service_areas"}
      [] OTHER                                -> {}

\* tools.py:17-28: FileNotFoundError of line 22, the error of open() or that of
\* json.load() is printed and raised again; otherwise the parsed value
load_restaurant_data(condition) ==
    IF condition \in {"missing", "unreadable", "invalid_json"}
    THEN [raised |-> TRUE, object |-> FALSE, keys |-> {}]
    ELSE [raised |-> FALSE, object |-> condition # "not_an_object",
          keys |-> file_keys(condition)]

\* data[key] evaluates: TypeError on a value that is not an object, KeyError
\* on an object without the key
subscript(data, key) == data.object /\ key \in data.keys

\* the load of tools.py reading the tables with a default for a missing one
load_tools_module_lenient(condition) ==
    LET data == load_restaurant_data(condition)
    IN  IF data.raised \/ ~data.object
        THEN [status |-> "failed", bound |-> {}]
        ELSE [status |-> "loaded",
              bound |-> {"_restaurant_data", "SERVICE_AREAS_JSON", "RESTAURANT_PARTNERS_JSON"}]

\* tools.py:30-37, the statements at module level: the names bound before an
\* exception, which ends the import of the module
load_tools_module(condition) ==
    LET data == load_restaurant_data(condition)
    IN  IF data.raised
        THEN [status |-> "failed", bound |-> {}]
        ELSE IF ~subscript(data, "service_areas")
        THEN [status |-> "failed", bound |-> {"_restaurant_data"}]
        ELSE IF ~subscript(data, "restaurant_partners")
        THEN [status |-> "failed", bound |-> {"_restaurant_data", "SERVICE_AREAS_JSON"}]
        ELSE [status |-> "loaded",
              bound |-> {"_restaurant_data", "SERVICE_AREAS_JSON", "RESTAURANT_PARTNERS_JSON"}]

\* agent.py:25-33: ValueError when OPENAI_API_KEY is not set
validate_environment(openai_key) == IF openai_key THEN "validated" ELSE "raised"

\* agent.py:15-36 and 210-215, the import of agent.py: it imports tools.py
\* first, validates the environment, then builds and compiles the graph
import_agent(tools_module, openai_key) ==
    IF tools_module.status # "loaded" THEN "failed"
    ELSE IF validate_environment(openai_key) = "raised" THEN "failed"
    ELSE "compiled"

\* the tools bound to the model and given to the ToolNode (agent.py:153)
AgentTools == {"check_service_area", "check_order_minimum", "send_lead_notification"}

\* the functions of tools.py that read the tables loaded from the file
LookupFunctions == {"check_service_area", "get_restaurant_partners", "get_business_rules"}

AgentMessage(type, content, tool_calls) ==
    [type |-> type, content |-> content, tool_calls |-> tool_calls]

\* what a call of the external model may come to: an error, a reply with a
\* text or with an empty content, or an assistant message asking for one tool
\* or for two
ModelResponses ==
    {[kind |-> "error", content |-> "", tool_calls |-> << >>]}
    \cup {[kind |-> "ai", content |-> content, tool_calls |-> << >>] :
            content \in {"", "text"}}
    \cup {[kind |-> "ai", content |-> "", tool_calls |-> tool_calls] :
            tool_calls \in {<<"check_service_area", "check_order_minimum">>}
                           \cup {<<t>> : t \in AgentTools}}

\* the add_messages reducer of the messages channel (agent.py:44), on
\* messages without ids: the update is appended
add_messages(left, right) == left \o right

\* call_model turning an error of the model into an empty reply
call_model_swallowing(messages, response) ==
    IF response.kind = "error"
    THEN [raised |-> FALSE, update |-> <<AgentMessage("ai", "", << >>)>>]
    ELSE [raised |-> FALSE,
          update |-> <<AgentMessage("ai", response.content, response.tool_calls)>>]

\* agent.py:161-171: the error of llm_with_tools.invoke leaves the node;
\* otherwise the update of the channel is the response
call_model(messages, response) ==
    IF response.kind = "error"
    THEN [raised |-> TRUE, update |-> << >>]
    ELSE [raised |-> FALSE,
          update |-> <<AgentMessage("ai", response.content, response.tool_calls)>>]

\* should_continue ending the turn whatever the last message asks for
should_continue_ignores_calls(messages) == "end"

\* agent.py:174-183
should_continue(messages) ==
    IF messages[Len(messages)].tool_calls # << >> THEN "tools" ELSE "end"

\* agent.py:158, ToolNode(tools): one tool message for each tool call of the
\* last message, in order
tool_node(messages) ==
    LET tool_calls == messages[Len(messages)].tool_calls
    IN  [i \in 1..Len(tool_calls) |-> AgentMessage("tool", tool_calls[i], << >>)]

\* no turn of the tool-calling agent is in flight
no_run ==
    [status |-> "idle", node |-> "agent", messages |-> << >>, rounds |-> 0,
     model_failed |-> FALSE, trace |-> << >>]

\* the process before any module of the tool-calling agent is imported
not_started(condition) ==
    [data_file |-> condition, module |-> [status |-> "unloaded", bound |-> {}],
     graph |-> "none", imports |-> 0, called |-> {}, messages |-> << >>,
     turns |-> 0, run |-> no_run]

----------------------------------------------------------------------------
(* Two sessions in one process. A Python list is an object: the messages of a
   ConversationState are a reference into the heap of list objects, and the
   nodes append to the list they are handed (agent.py:171 .. 464). Each session
   carries the state and the sink calls it would have if it ran alone. *)

SessionIds == {1, 2}

\* the module-level tables of tools.py, shared by every session of the process
reference_tables ==
    [SERVICE_AREAS |-> SERVICE_AREAS, RESTAURANT_PARTNERS |-> RESTAURANT_PARTNERS]

\* a session whose messages are the list object of the first session
new_session_shared(heap) ==
    [ref |-> 1, heap |-> IF heap = << >> THEN << << >> >> ELSE heap]

\* test_agent.py:109-128: the literal "messages": [] makes a new list object
new_session(heap) ==
    [ref |-> Len(heap) + 1, heap |-> Append(heap, << >>)]

\* the two sessions opened one after the other, each with the script its user follows
open_sessions(scripts) ==
    LET first == new_session(<< >>)
        second == new_session(first.heap)
    IN  [heap |-> second.heap,
         tables |-> reference_tables,
         sink |-> << >>,
         session |-> [id \in SessionIds |->
                        [script |-> scripts[id],
                         said |-> 0,
                         ref |-> IF id = 1 THEN first.ref ELSE second.ref,
                         fields |-> initial_state,
                         alone |-> [state |-> initial_state, sent |-> << >>]]]]

\* the ConversationState a session holds: its fields, its messages read
\* through the reference
session_state(p, id) ==
    [p.session[id].fields EXCEPT !.messages = p.heap[p.session[id].ref]]

\* the calls the sink has received from one session, in order
session_sent(p, id) ==
    LET mine(entry) == entry.session = id
        calls == SelectSeq(p.sink, mine)
    IN  [i \in 1..Len(calls) |-> calls[i].call]

----------------------------------------------------------------------------
(* The session *)

\* no function of tools.py has been called
no_call == [name |-> "none", calls |-> 0]

Init ==
    /\ state = initial_state
    /\ sent = << >>
    /\ invocation = idle
    /\ driver = "none"
    /\ tool_call = no_call
    /\ tools_agent = not_started("complete")
    /\ pair = open_sessions(<<Script1, Script2>>)

\* the caller appends the user's message to the transcript of a session that
\* has not ended: after a reply of the assistant or, in a session the graph
\* drives, after an invocation of the graph has returned
Human(text) ==
    /\ invocation.status # "running"
    /\ state.conversation_stage \notin {"complete", "end"}
    /\ Len(human_texts(state.messages)) < MaxHuman
    /\ \/ driver = "graph" /\ invocation.status \in {"ended", "error"}
       \/ /\ state.messages # << >>
          /\ state.messages[Len(state.messages)].type = "ai"
    /\ state' = [state EXCEPT !.messages = Append(@, HumanMessage(text))]
    /\ invocation' = idle
    /\ UNCHANGED <<sent, driver, tool_call, tools_agent, pair>>

\* the caller invokes one stage node on the state
Call(n) ==
    /\ invocation.status # "running"
    /\ driver # "graph"
    /\ LET r == node(n, state)
       IN  /\ state' = r.state
           /\ sent' = sent \o r.notified
    /\ invocation' = idle
    /\ driver' = "nodes"
    /\ UNCHANGED <<tool_call, tools_agent, pair>>

\* graph.invoke(state): the compiled graph starts at its entry point
Invoke ==
    /\ invocation.status # "running"
    /\ invocation' = [idle EXCEPT !.status = "running", !.node = entry_point]
    /\ driver' = IF driver = "none" THEN "graph" ELSE driver
    /\ UNCHANGED <<state, sent, tool_call, tools_agent, pair>>

\* one step of the compiled graph: the current node runs, then route_conversation
\* names the next node from the state the node returned
Step ==
    /\ invocation.status = "running"
    /\ LET r == node(invocation.node, state)
           next == route_conversation(r.state)
           steps == invocation.supersteps + 1
       IN  /\ state' = r.state
           /\ sent' = sent \o r.notified
           /\ invocation' =
                [status |-> IF next = END THEN "ended"
                            ELSE IF steps >= RecursionLimit THEN "error" ELSE "running",
                 node |-> next,
                 supersteps |-> steps,
                 transitions |-> invocation.transitions
                     + (IF r.state.conversation_stage # state.conversation_stage THEN 1 ELSE 0),
                 replies |-> invocation.replies + (Len(r.state.messages) - Len(state.messages)),
                 notifications |-> invocation.notifications + Len(r.notified)]
    /\ UNCHANGED <<driver, tool_call, tools_agent, pair>>

Next ==
    \/ \E text \in Inputs(state.messages) : Human(text)
    \/ \E n \in Nodes : Call(n)
    \/ Invoke
    \/ Step

Spec == Init /\ [][Next]_vars

----------------------------------------------------------------------------
(* The session with a Notification Sink that may fail *)

\* how a call of send_notification may fail: it raises, or it returns a dict
\* whose success is false
SinkFailures == {"raised", "reported"}

\* the most failures of the sink in one session
MaxSinkFailures == 1

\* the caller invokes email_collection_node in its stage on the user's reply and
\* the call of send_notification fails: a raised exception leaves the node at the call, a
\* reported failure is a return value the node does not read (agent.py:431)
CallSinkFailing(outcome) ==
    /\ invocation.status # "running"
    /\ driver # "graph"
    /\ state.conversation_stage = "email_collection"
    /\ state.messages[Len(state.messages)].type = "human"
    /\ tool_call.calls < MaxSinkFailures
    /\ LET r == IF outcome = "raised" THEN email_collection_node_interrupted(state)
                ELSE email_collection_node(state)
       IN  /\ state' = r.state
           /\ sent' = sent \o r.notified
           /\ tool_call' = [name |-> "send_notification", calls |-> tool_call.calls + 1,
                            args |-> r.notified[1], result |-> outcome]
    /\ invocation' = idle
    /\ driver' = "nodes"
    /\ UNCHANGED <<tools_agent, pair>>

FaultNext ==
    \/ Next
    \/ \E outcome \in SinkFailures : CallSinkFailing(outcome)

FaultSpec == Init /\ [][FaultNext]_vars

----------------------------------------------------------------------------
(* The functions of tools.py called on their own, as test_agent.py calls them *)

\* the largest headcount the scorer is called with, besides the 50 of the test
MaxHeadcount == 25

\* the most calls of the scorer in one run
MaxCalls == 2

\* Optional[int]: unknown, or a number of people (a negative one included)
Headcounts == {None} \cup {Some(h) : h \in (0 - 1)..MaxHeadcount} \cup {Some(50)}

\* Optional[str]: unknown, or one of the three needs
Needs == {None, Some("recurring"), Some("one-time"), Some("exploring")}

\* the default minimum order size and two smaller ones, above and below the
\* 10 of the second tier
MinimumOrderSizes == {minimum_order_size, 12, 5}

\* calculate_lead_score(is_in_service_area, headcount, user_need, minimum_order_size)
\* is called, first in its run or after another call of it: it reads its
\* arguments only and returns a new dict
ScoreLead(is_in_service_area, headcount, user_need, min_order_size) ==
    /\ tool_call.name \in {"none", "calculate_lead_score"}
    /\ tool_call.calls < MaxCalls
    /\ tool_call' =
         [name |-> "calculate_lead_score",
          calls |-> tool_call.calls + 1,
          args |-> [is_in_service_area |-> is_in_service_area, headcount |-> headcount,
                    user_need |-> user_need, minimum_order_size |-> min_order_size],
          result |-> calculate_lead_score(is_in_service_area, headcount, user_need,
                                          min_order_size)]
    /\ UNCHANGED <<state, sent, invocation, driver, tools_agent, pair>>

\* the cities check_service_area is asked about: the two of test_agent.py, the two
\* of the spec, cities of the table in other cases and with surrounding whitespace,
\* parts of names, the empty name and cities that are not served
AreaCities ==
    {<<"N","e","w"," ","Y","o","r","k"," ","C","i","t","y">>,
     <<"S","m","a","l","l"," ","T","o","w","n">>,
     <<"N","E","W"," ","Y","O","R","K"," ","c","i","t","y">>,
     <<"n","e","w"," ","y","o","r","k">>,
     <<" "," ","N","e","w"," ","Y","o","r","k","\n">>,
     <<"S","a","n"," ","F","r","a","n","c","i","s","c","o">>,
     <<"s","a","n">>,
     <<"L","o","s"," ","A","n","g","e","l","e","s">>,
     <<"l","o","s"," ","a","n","g","e","l","e","s"," ">>,
     <<"B","o","s","t","o","n">>,
     <<"\t","B","O","S","T","O","N">>,
     <<"A","u","s","t","i","n">>,
     <<"P","o","r","t","l","a","n","d">>,
     <<" ","P","O","R","T","L","A","N","D"," ">>,
     <<"p","o","r","t","l","a","n","d">>,
     <<"M","i","a","m","i"," ","B","e","a","c","h">>,
     <<"o">>,
     << >>}

\* the states check_service_area is given: none, states of the table in both
\* cases, the TX of test_agent.py and the empty string
AreaStates ==
    {None,
     Some(<<"N","Y">>),
     Some(<<"n","y">>),
     Some(<<"C","A">>),
     Some(<<"c","a">>),
     Some(<<"T","X">>),
     Some(<<"M","A">>),
     Some(<< >>)}

\* the cities get_restaurant_partners is asked about
PartnerCities ==
    {<<"N","e","w"," ","Y","o","r","k"," ","C","i","t","y">>,
     <<" ","N","E","W"," ","Y","O","R","K"," ">>,
     <<"l","o","s"," ","a","n","g","e","l","e","s">>,
     <<"S","a","n"," ","F","r","a","n","c","i","s","c","o">>,
     <<"a","n">>,
     <<"P","o","r","t","l","a","n","d">>,
     << >>}

\* the cuisine_type filters: none, the empty list, and lists of one or two tags
CuisineTypes ==
    {None,
     Some(<<>>),
     Some(<<<<"I","t","a","l","i","a","n">>>>),
     Some(<<<<"h","e","a","l","t","h","y">>>>),
     Some(<<<<"M","e","x","i","c","a","n">>, <<"B","B","Q">>>>),
     Some(<<<<"T","h","a","i">>>>)}

\* the dietary_needs filters
DietaryNeeds ==
    {None,
     Some(<<<<"v","e","g","a","n">>>>),
     Some(<<<<"G","l","u","t","e","n","-","F","r","e","e">>>>),
     Some(<<<<"k","o","s","h","e","r">>, <<"p","e","s","c","a","t","a","r","i","a","n">>>>)}

\* the capacity filters: none, the three sizes, a size in capitals, an unknown
\* size and the empty string
Capacities ==
    {None,
     Some(<<"s","m","a","l","l">>),
     Some(<<"m","e","d","i","u","m">>),
     Some(<<"L","A","R","G","E">>),
     Some(<<"h","u","g","e">>),
     Some(<< >>)}

\* the largest limit get_restaurant_partners is called with: the table has six partners
MaxLimit == 6

\* the limits: every integer from 0
Limits == 0..MaxLimit

\* check_service_area(city, state) is called, first in its run
CheckArea(city, area_state) ==
    /\ tool_call.calls = 0
    /\ tool_call' =
         [name |-> "check_service_area",
          calls |-> 1,
          args |-> [city |-> city, state |-> area_state],
          result |-> check_service_area(city, area_state)]
    /\ UNCHANGED <<state, sent, invocation, driver, tools_agent, pair>>

\* get_restaurant_partners(city, cuisine_type, dietary_needs, capacity, limit)
\* is called, first in its run
FindPartners(city, cuisine_type, dietary_needs, capacity, limit) ==
    /\ tool_call.calls = 0
    /\ tool_call' =
         [name |-> "get_restaurant_partners",
          calls |-> 1,
          args |-> [city |-> city, cuisine_type |-> cuisine_type,
                    dietary_needs |-> dietary_needs, capacity |-> capacity, limit |-> limit],
          result |-> get_restaurant_partners(city, cuisine_type, dietary_needs, capacity,
                                             limit)]
    /\ UNCHANGED <<state, sent, invocation, driver, tools_agent, pair>>

ToolsNext ==
    \/ \E a \in BOOLEAN, h \in Headcounts, n \in Needs, mo \in MinimumOrderSizes :
          ScoreLead(a, h, n, mo)
    \/ \E city \in AreaCities, area_state \in AreaStates : CheckArea(city, area_state)
    \/ \E city \in PartnerCities, cuisine_type \in CuisineTypes,
          dietary_needs \in DietaryNeeds, capacity \in Capacities, limit \in Limits :
          FindPartners(city, cuisine_type, dietary_needs, capacity, limit)

ToolsSpec == Init /\ [][ToolsNext]_vars

----------------------------------------------------------------------------
(* The process of the tool-calling agent: the imports, the lookups called on
   their own, and the turns of a conversation through the compiled graph *)

\* the process starts with restaurant_data.json in any condition
AgentInit ==
    /\ state = initial_state
    /\ sent = << >>
    /\ invocation = idle
    /\ driver = "none"
    /\ tool_call = no_call
    /\ tools_agent \in {not_started(condition) : condition \in FileConditions}
    /\ pair = open_sessions(<<Script1, Script2>>)

\* import tools_agent.meal_outpost.tools
ImportTools ==
    /\ tools_agent.module.status # "loaded"
    /\ tools_agent.imports < MaxImports
    /\ tools_agent' = [tools_agent EXCEPT !.module = load_tools_module(tools_agent.data_file),
                                          !.imports = @ + 1]
    /\ UNCHANGED <<state, sent, invocation, driver, tool_call, pair>>

\* import tools_agent.meal_outpost.agent, OPENAI_API_KEY set or not
ImportAgent(openai_key) ==
    /\ tools_agent.graph # "compiled"
    /\ tools_agent.imports < MaxImports
    /\ LET tools_module == IF tools_agent.module.status = "loaded" THEN tools_agent.module
                           ELSE load_tools_module(tools_agent.data_file)
       IN  tools_agent' = [tools_agent EXCEPT !.module = tools_module,
                                              !.graph = import_agent(tools_module, openai_key),
                                              !.imports = @ + 1]
    /\ UNCHANGED <<state, sent, invocation, driver, tool_call, pair>>

\* a caller that has imported tools.py calls one of its lookup functions
Lookup(name) ==
    /\ tools_agent.module.status = "loaded"
    /\ name \notin tools_agent.called
    /\ tools_agent' = [tools_agent EXCEPT !.called = @ \cup {name}]
    /\ UNCHANGED <<state, sent, invocation, driver, tool_call, pair>>

\* the caller appends the user's message to the messages it stores and invokes
\* the graph on them: the turn starts at the entry point, the agent node
UserTurn ==
    /\ tools_agent.graph = "compiled"
    /\ tools_agent.run.status # "running"
    /\ tools_agent.turns < MaxTurns
    /\ LET messages == Append(tools_agent.messages, AgentMessage("human", "text", << >>))
       IN  tools_agent' = [tools_agent EXCEPT
                             !.messages = messages,
                             !.turns = @ + 1,
                             !.run = [no_run EXCEPT !.status = "running",
                                                    !.messages = messages]]
    /\ UNCHANGED <<state, sent, invocation, driver, tool_call, pair>>

\* the agent node runs call_model, then should_continue routes: an error of
\* the model ends graph.invoke with the exception and the caller is returned
\* no state; at END the caller stores the messages graph.invoke returns
AgentStep(response) ==
    /\ tools_agent.run.status = "running"
    /\ tools_agent.run.node = "agent"
    /\ response.tool_calls # << >> => tools_agent.run.rounds < MaxToolRounds
    /\ LET run == tools_agent.run
           r == call_model(run.messages, response)
           messages == add_messages(run.messages, r.update)
           trace == Append(run.trace, "agent")
           failed == run.model_failed \/ response.kind = "error"
       IN  IF r.raised
           THEN tools_agent' = [tools_agent EXCEPT
                                  !.run = [run EXCEPT !.status = "failed",
                                                      !.model_failed = failed,
                                                      !.trace = trace]]
           ELSE IF should_continue(messages) = "tools"
           THEN tools_agent' = [tools_agent EXCEPT
                                  !.run = [run EXCEPT !.node = "tools",
                                                      !.messages = messages,
                                                      !.model_failed = failed,
                                                      !.trace = trace]]
           ELSE tools_agent' = [tools_agent EXCEPT
                                  !.messages = messages,
                                  !.run = [run EXCEPT !.status = "ended",
                                                      !.node = END,
                                                      !.messages = messages,
                                                      !.model_failed = failed,
                                                      !.trace = trace]]
    /\ UNCHANGED <<state, sent, invocation, driver, tool_call, pair>>

\* the tools node runs the tools the last message asks for, then the edge
\* tools -> agent
ToolsStep ==
    /\ tools_agent.run.status = "running"
    /\ tools_agent.run.node = "tools"
    /\ LET run == tools_agent.run
           update == tool_node(run.messages)
       IN  tools_agent' = [tools_agent EXCEPT
                             !.called = @ \cup {update[i].content : i \in DOMAIN update},
                             !.run = [run EXCEPT !.node = "agent",
                                                 !.messages = add_messages(@, update),
                                                 !.rounds = @ + 1,
                                                 !.trace = Append(@, "tools")]]
    /\ UNCHANGED <<state, sent, invocation, driver, tool_call, pair>>

ToolsAgentNext ==
    \/ ImportTools
    \/ \E openai_key \in BOOLEAN : ImportAgent(openai_key)
    \/ \E name \in LookupFunctions : Lookup(name)
    \/ UserTurn
    \/ \E response \in ModelResponses : AgentStep(response)
    \/ ToolsStep

ToolsAgentSpec == AgentInit /\ [][ToolsAgentNext]_vars

----------------------------------------------------------------------------
(* Two sessions whose turns are interleaved *)

PairInit ==
    /\ state = initial_state
    /\ sent = << >>
    /\ invocation = idle
    /\ driver = "none"
    /\ tool_call = no_call
    /\ tools_agent = not_started("complete")
    /\ pair \in {open_sessions(<<first, second>>) : first \in Scripts, second \in Scripts}

\* the caller of one session appends the next message of its user to the
\* session's list of messages
PairHuman(id) ==
    LET session == pair.session[id]
        messages == pair.heap[session.ref]
    IN  /\ session.fields.conversation_stage \notin {"complete", "end"}
        /\ session.said < Len(session.script)
        /\ messages # << >>
        /\ messages[Len(messages)].type = "ai"
        /\ LET message == HumanMessage(session.script[session.said + 1])
           IN  pair' = [pair EXCEPT
                          !.heap[session.ref] = Append(@, message),
                          !.session[id].said = @ + 1,
                          !.session[id].alone.state.messages = Append(@, message)]
        /\ UNCHANGED <<state, sent, invocation, driver, tool_call, tools_agent>>

\* the caller of one session calls a stage node on the session's state, at the
\* start of the session or on a message of the user: the node writes the
\* fields of the record and appends to the list the record refers to
PairCall(id, n) ==
    LET session == pair.session[id]
        messages == pair.heap[session.ref]
        r == node(n, session_state(pair, id))
        alone == node(n, session.alone.state)
    IN  /\ IF messages = << >> THEN TRUE ELSE messages[Len(messages)].type = "human"
        /\ pair' = [pair EXCEPT
                       !.heap[session.ref] = r.state.messages,
                       !.sink = @ \o [i \in 1..Len(r.notified) |->
                                        [session |-> id, call |-> r.notified[i]]],
                       !.session[id].fields = [r.state EXCEPT !.messages = << >>],
                       !.session[id].alone = [state |-> alone.state,
                                              sent |-> @.sent \o alone.notified]]
        /\ UNCHANGED <<state, sent, invocation, driver, tool_call, tools_agent>>

PairNext ==
    \/ \E id \in SessionIds : PairHuman(id)
    \/ \E id \in SessionIds, n \in Nodes : PairCall(id, n)

PairSpec == PairInit /\ [][PairNext]_vars

----------------------------------------------------------------------------
(* The session that probes one stage with many messages *)

\* the caller calls a stage node at the start of the session or on a message
\* of the user
ProbeCall(n) ==
    /\ IF state.messages = << >> THEN TRUE
       ELSE state.messages[Len(state.messages)].type = "human"
    /\ Call(n)

ProbeNext ==
    \/ \E text \in ProbeInputs(state) : Human(text)
    \/ \E n \in Nodes : ProbeCall(n)

ProbeSpec == Init /\ [][ProbeNext]_vars

----------------------------------------------------------------------------
(* The claims *)

\* the stages in the order of the pipeline; "end" is the side branch
StageOrder ==
    <<"greeting", "discovery", "location", "timing", "scale", "frequency", "preferences",
      "restaurant_partners", "contact_capture", "email_collection", "handoff", "complete">>

rank(stage) == CHOOSE i \in DOMAIN StageOrder : StageOrder[i] = stage

Terminal == {"complete", "end"}

Finished == {"ended", "error"}

\* C1: a stage node invoked in a state whose conversation_stage is not the
\* node's own stage returns the state unchanged and makes no Notification Sink
\* call; it holds of every node in every reachable state
C1_OffStageNodeReturnsStateUnchanged ==
    \A n \in Nodes :
        state.conversation_stage # n => node(n, state) = Return(state, << >>)

\* C1 witness: an invocation of the graph that ran greeting and handoff on a
\* state in stage email_collection, and nothing changed
C1_Witness ==
    /\ invocation.status = "error"
    /\ invocation.supersteps >= 2
    /\ invocation.transitions = 0
    /\ invocation.replies = 0
    /\ state.conversation_stage = "email_collection"

\* C2: the stage never moves backward in the order of the pipeline, the stage
\* end is entered only from contact_capture, and once the stage is complete or
\* end no invocation changes the state or calls the sink
C2_StageOnlyAdvances ==
    [][/\ state.conversation_stage # "end" /\ state'.conversation_stage # "end"
            => rank(state'.conversation_stage) >= rank(state.conversation_stage)
       /\ state'.conversation_stage = "end" /\ state.conversation_stage # "end"
            => state.conversation_stage = "contact_capture"
       /\ state.conversation_stage \in Terminal
            => /\ state' = state
               /\ sent' = sent
               /\ \A n \in Nodes : node(n, state) = Return(state, << >>)]_vars

\* C2 witness: the graph was invoked on a session that had gone to end
C2_Witness ==
    /\ state.conversation_stage = "end"
    /\ invocation.status = "ended"
    /\ invocation.supersteps >= 1

C4_OneTransitionPerInvocation ==
    invocation.status \in Finished /\ state.conversation_stage \notin Terminal
        => /\ invocation.transitions = 1
           /\ invocation.replies <= 1
           /\ invocation.notifications <= 1

\* the result the session of the qualified recurring lead is to end with
Session1Result ==
    /\ state.user_need = Some("recurring")
    /\ state.is_in_service_area = Some(TRUE)
    /\ state.headcount = Some(45)
    /\ state.qualification_status = Some("Qualified")
    /\ Len(sent) = 1
    /\ sent[1].lead_data.contact.email = q8
    /\ state.contact_email = Some(q8)

\* C5 (as claimed): the session the graph drives with the user inputs of
\* Script1, each followed by an invocation, ends with user_need recurring,
\* is_in_service_area true, headcount 45, status Qualified and one Notification
\* Sink call carrying sarah.johnson@techcorp.com
C5_QualifiedSession ==
    /\ driver = "graph"
    /\ invocation.status \in Finished
    /\ human_texts(state.messages) = Script1
    => Session1Result

\* C6 (as claimed): when the location stage reads "Portland, Oregon" it sets
\* is_in_service_area to false and moves on to timing, and the session of
\* Script2 that reaches handoff has the status Maybe
C6_PortlandOutsideServiceArea ==
    [][/\ state.conversation_stage = "location" /\ last_content(state) = p2
          /\ state'.conversation_stage # "location"
            => /\ state'.is_in_service_area = Some(FALSE)
               /\ state'.conversation_stage = "timing"
       /\ state'.conversation_stage = "handoff" /\ human_texts(state'.messages) = Script2
            => state'.qualification_status = Some("Maybe")]_vars

\* C7 (as claimed): the qualification_status email_collection stores is the
\* status calculate_lead_score computes from is_in_service_area, headcount and
\* user_need
C7_StoredStatusIsScorerStatus ==
    state.qualification_status # None
        => state.qualification_status[1]
             = calculate_lead_score(truthy_bool(state.is_in_service_area), state.headcount,
                                    state.user_need, minimum_order_size).status

\* the transcript holds the question scale_node asks: the node has run
scale_executed(messages) ==
    \E i \in DOMAIN messages :
        messages[i] \in {AIMessage(frequency_question), AIMessage(preferences_question)}

C9_MeetsMinimumDerived ==
    /\ state.meets_minimum = None <=> state.headcount = None
    /\ state.headcount # None
         => /\ state.headcount[1] >= 0
            /\ state.meets_minimum = Some(state.headcount[1] >= 20)

\* C9 witness: a headcount of exactly 20 meets the minimum
C9_Witness ==
    /\ state.headcount = Some(20)
    /\ state.meets_minimum = Some(TRUE)

\* the successor of the stages whose successor is fixed
fixed_successor ==
    [stage \in {"greeting", "discovery", "location", "timing", "frequency", "preferences",
                "restaurant_partners", "email_collection", "handoff"} |->
        CASE stage = "greeting"            -> "discovery"
          [] stage = "discovery"           -> "location"
          [] stage = "location"            -> "timing"
          [] stage = "timing"              -> "scale"
          [] stage = "frequency"           -> "preferences"
          [] stage = "preferences"         -> "restaurant_partners"
          [] stage = "restaurant_partners" -> "contact_capture"
          [] stage = "email_collection"    -> "handoff"
          [] stage = "handoff"             -> "complete"]

\* C10: the stage after scale is frequency if user_need is recurring and
\* preferences otherwise; contact_capture goes to email_collection or end; every
\* other stage has one fixed successor; and the stage is frequency only when
\* user_need is recurring
C10_ScaleBranchesOnRecurring ==
    [][/\ state.conversation_stage = "scale" /\ state'.conversation_stage # "scale"
            => state'.conversation_stage
                 = IF state.user_need = Some("recurring") THEN "frequency" ELSE "preferences"
       /\ state.conversation_stage = "contact_capture"
          /\ state'.conversation_stage # "contact_capture"
            => state'.conversation_stage \in {"email_collection", "end"}
       /\ state.conversation_stage \in DOMAIN fixed_successor
          /\ state'.conversation_stage # state.conversation_stage
            => state'.conversation_stage = fixed_successor[state.conversation_stage]
       /\ state'.conversation_stage = "frequency"
            => state'.user_need = Some("recurring")]_vars

\* C10 witness: a recurring session that went through the frequency stage
C10_Witness ==
    /\ state.conversation_stage = "complete"
    /\ state.user_need = Some("recurring")
    /\ state.frequency # None

----------------------------------------------------------------------------
(* The claims about the Qualification Scorer *)

\* the latest call is a call of calculate_lead_score
scored == tool_call.name = "calculate_lead_score"

\* the rank of a status tier
tier(status) ==
    CASE status = "Qualified" -> 2 [] status = "Maybe" -> 1 [] status = "Not Qualified" -> 0

\* the score is (50 in the service area, else 0) + (30 for a headcount of at
\* least minimum_order_size, else 15 for one of at least 10, else 0, and 0 for
\* an unknown headcount) + (20 for a recurring need, 10 for a one-time need,
\* else 0); the status is Qualified exactly for a score of at least 70, Maybe
\* exactly for 40 to 69, Not Qualified exactly below 40
score_is_sum_of_factors ==
    LET a == tool_call.args
        r == tool_call.result
        area_points == IF a.is_in_service_area THEN 50 ELSE 0
        size_points == IF a.headcount = None THEN 0
                       ELSE IF a.headcount[1] >= a.minimum_order_size THEN 30
                       ELSE IF a.headcount[1] >= 10 THEN 15
                       ELSE 0
        need_points == IF a.user_need = Some("recurring") THEN 20
                       ELSE IF a.user_need = Some("one-time") THEN 10
                       ELSE 0
    IN  /\ r.score = area_points + size_points + need_points
        /\ r.status = "Qualified" <=> r.score >= 70
        /\ r.status = "Maybe" <=> (40 <= r.score /\ r.score < 70)
        /\ r.status = "Not Qualified" <=> r.score < 40

\* the call is for an out-of-area lead with a known headcount below 10
small_out_of_area ==
    /\ ~tool_call.args.is_in_service_area
    /\ tool_call.args.headcount # None
    /\ tool_call.args.headcount[1] < 10

boundary_call ==
    /\ scored
    /\ tool_call.args = [is_in_service_area |-> TRUE, headcount |-> Some(15),
                         user_need |-> Some("one-time"),
                         minimum_order_size |-> minimum_order_size]

C14_SubstantialOneTimeIsMaybe ==
    (/\ scored
     /\ tool_call.args.is_in_service_area
     /\ tool_call.args.user_need = Some("one-time")
     /\ tool_call.args.minimum_order_size = minimum_order_size
     /\ tool_call.args.headcount # None
     /\ tool_call.args.headcount[1] >= 10
     /\ tool_call.args.headcount[1] < minimum_order_size)
        => tool_call.result.status = "Maybe"

\* the order of the headcounts: unknown below every known one
headcount_leq(h1, h2) == h1 = None \/ (h2 # None /\ h1[1] <= h2[1])

\* the order of the needs: exploring and unknown, then one-time, then recurring
need_rank(user_need) ==
    IF user_need = Some("recurring") THEN 2 ELSE IF user_need = Some("one-time") THEN 1 ELSE 0

\* C15: with the other arguments held fixed, changing is_in_service_area from
\* false to true, raising the headcount (from unknown to a known one, or to a
\* larger one) or moving user_need up in exploring/unknown < one-time <
\* recurring never decreases the score and never lowers the status tier
C15_ScorerMonotonic ==
    scored =>
        LET a == tool_call.args
            r == tool_call.result
            no_worse(other) == other.score >= r.score /\ tier(other.status) >= tier(r.status)
        IN  /\ ~a.is_in_service_area =>
                   no_worse(calculate_lead_score(TRUE, a.headcount, a.user_need,
                                                 a.minimum_order_size))
            /\ \A h \in Headcounts :
                   headcount_leq(a.headcount, h) =>
                       no_worse(calculate_lead_score(a.is_in_service_area, h, a.user_need,
                                                     a.minimum_order_size))
            /\ \A n \in Needs :
                   need_rank(a.user_need) <= need_rank(n) =>
                       no_worse(calculate_lead_score(a.is_in_service_area, a.headcount, n,
                                                     a.minimum_order_size))

\* C15 witness: a call just below the minimum order size, which a larger
\* headcount lifts from Maybe to Qualified
C15_Witness ==
    /\ scored
    /\ tool_call.args.headcount = Some(minimum_order_size - 1)
    /\ tool_call.args.minimum_order_size = minimum_order_size
    /\ tool_call.result.status = "Maybe"
    /\ calculate_lead_score(tool_call.args.is_in_service_area, Some(minimum_order_size),
                            tool_call.args.user_need, minimum_order_size).status = "Qualified"

\* C16: the reasons are, in this order, exactly one service-area reason, then
\* exactly one headcount reason if and only if the headcount is known (not
\* None), the 'Small order size' one for every known headcount below 10, then
\* exactly one need reason if and only if user_need is recurring or one-time
C16_ReasonsInOrder ==
    scored =>
        LET a == tool_call.args
            reasons == tool_call.result.reasons
            sized == a.headcount # None
            needed == a.user_need \in {Some("recurring"), Some("one-time")}
            is_size_reason(reason) ==
                \E prefix \in {meets_minimum_reason, substantial_reason, small_order_reason} :
                    reason = headcount_reason(prefix, a.headcount[1])
        IN  /\ Len(reasons) = 1 + (IF sized THEN 1 ELSE 0) + (IF needed THEN 1 ELSE 0)
            /\ reasons[1] = (IF a.is_in_service_area THEN in_area_reason
                             ELSE out_of_area_reason)
            /\ sized => is_size_reason(reasons[2])
            /\ (sized /\ a.headcount[1] < 10) =>
                   reasons[2] = headcount_reason(small_order_reason, a.headcount[1])
            /\ needed => reasons[Len(reasons)] \in {recurring_reason, one_time_reason}

----------------------------------------------------------------------------
(* The claims about the Lookup Functions *)

\* the latest call is a call of check_service_area
area_checked == tool_call.name = "check_service_area"

\* the latest call is a call of get_restaurant_partners
partners_found == tool_call.name = "get_restaurant_partners"

\* the two cities differ in letter case and surrounding whitespace at most
same_city(city, other) == lower(strip(city)) = lower(strip(other))

\* the table entries check_service_area(city, area_state) may answer with:
\* those whose city contains the lower-cased, trimmed city and whose state is
\* the upper-cased state, when a state is given
matching_areas(city, area_state) ==
    {k \in DOMAIN SERVICE_AREAS :
        /\ contains(lower(strip(city)), lower(SERVICE_AREAS[k].city))
        /\ truthy_str(area_state) => upper(area_state[1]) = SERVICE_AREAS[k].state}

\* the two calls of the spec's example
new_york_queries ==
    {<<"N","E","W"," ","Y","O","R","K"," ","c","i","t","y">>,
     <<"n","e","w"," ","y","o","r","k">>}

C19_AtMostLimitPartners ==
    partners_found => Len(tool_call.result) <= tool_call.args.limit

\* the table partners that pass the city test and the filters of the latest
\* call, in table order
matching_partners ==
    SelectSeq(RESTAURANT_PARTNERS,
              LAMBDA restaurant :
                  passes_filters(restaurant, lower(strip(tool_call.args.city)),
                                 tool_call.args.cuisine_type, tool_call.args.dietary_needs,
                                 tool_call.args.capacity))

\* C20: every partner get_restaurant_partners returns is a table partner
\* whose city contains the lower-cased, trimmed city asked for, none is of
\* another city, and the results are the first matching partners in table
\* order: the search stops early only when limit is reached
C20_PartnersOfTheCityInTableOrder ==
    partners_found =>
        LET found == tool_call.result
            hits == matching_partners
        IN  /\ Len(found) <= Len(hits)
            /\ \A i \in DOMAIN found :
                   /\ found[i] = partner_dict(hits[i])
                   /\ contains(lower(strip(tool_call.args.city)), lower(hits[i].city))
            /\ Len(found) < Len(hits) => Len(found) >= tool_call.args.limit

\* C20 witness: a part of a name that two cities of the table contain, asked
\* with a limit of 2 where three partners match
C20_Witness ==
    /\ partners_found
    /\ tool_call.args.city = <<"a","n">>
    /\ tool_call.args.limit = 2
    /\ Len(matching_partners) = 3
    /\ tool_call.result = <<partner_dict(partner_4), partner_dict(partner_5)>>

\* the capacity asked for is one of the three sizes, and the limit at least 1
capacity_asked ==
    /\ partners_found
    /\ tool_call.args.limit >= 1
    /\ truthy_str(tool_call.args.capacity)
    /\ capacity_order(tool_call.args.capacity[1]) > 0

\* the table partners that pass the city test and the cuisine and dietary
\* filters of the latest call and whose capacity tier is at or below the one
\* asked for, in table order
partners_within_ceiling ==
    SelectSeq(RESTAURANT_PARTNERS,
              LAMBDA restaurant :
                  /\ passes_filters(restaurant, lower(strip(tool_call.args.city)),
                                    tool_call.args.cuisine_type, tool_call.args.dietary_needs,
                                    None)
                  /\ capacity_order(restaurant.capacity)
                        <= capacity_order(tool_call.args.capacity[1]))

\* C21: a capacity passed to get_restaurant_partners is a ceiling on small <
\* medium < large: every partner returned has a capacity tier at or below the
\* one asked for, and no matching partner at or below it is left out because
\* of its capacity (the partners returned are the first of those, up to limit)
C21_CapacityIsCeiling ==
    capacity_asked =>
        LET found == tool_call.result
            hits == partners_within_ceiling
        IN  /\ \A i \in DOMAIN found :
                   capacity_order(found[i].capacity) <= capacity_order(tool_call.args.capacity[1])
            /\ Len(found) <= Len(hits)
            /\ \A i \in DOMAIN found : found[i] = partner_dict(hits[i])
            /\ Len(found) < Len(hits) => Len(found) >= tool_call.args.limit

----------------------------------------------------------------------------
(* The claims about the handling of errors in a session *)

\* a key of location_node's table of cities is part of the lower-cased text
names_city(text) ==
    \E k \in DOMAIN service_cities : contains(service_cities[k][1], lower(text))

\* is_in_service_area is true exactly when location_city and location_state are both set
located_iff_in_area(s) ==
    truthy_bool(s.is_in_service_area) <=> (s.location_city # None /\ s.location_state # None)

\* C22: when the location stage finds no city of its table in the message it
\* sets is_in_service_area to false, leaves location_city and location_state
\* None and still advances to timing; when it finds one it sets
\* is_in_service_area to true and both the city and the state; so in every
\* reachable state is_in_service_area is true exactly when both are set
C22_LocationMissIsSoft ==
    [][/\ located_iff_in_area(state)
       /\ located_iff_in_area(state')
       /\ (state.conversation_stage = "location" /\ state'.conversation_stage # "location") =>
              /\ state'.conversation_stage = "timing"
              /\ IF names_city(last_content(state))
                 THEN /\ state'.is_in_service_area = Some(TRUE)
                      /\ state'.location_city # None
                      /\ state'.location_state # None
                 ELSE /\ state'.is_in_service_area = Some(FALSE)
                      /\ state'.location_city = None
                      /\ state'.location_state = None]_vars

\* C22 witness: a session that went on to timing after a message without a city
C22_Witness ==
    /\ state.conversation_stage = "timing"
    /\ state.is_in_service_area = Some(FALSE)
    /\ state.location_city = None
    /\ state.location_state = None

\* messages that carry nothing a stage looks for: the empty one, and two
\* without a digit, a city, an email or a word of consent
MalformedTexts == {blank, b1, b5}

\* the stage is later than the other in the order of the stages, or the end
\* that contact_capture alone goes to
strictly_later(stage, other) ==
    IF stage = "end" THEN other = "contact_capture" ELSE rank(stage) > rank(other)

\* C23: no stage node fails on malformed input: in every state of a session
\* that has not ended, the node of the current stage, run on the transcript as
\* it is or after any malformed user message, returns a state of a strictly
\* later stage; a scale message without digits leaves headcount and
\* meets_minimum None
C23_NoNodeFailsOnMalformedInput ==
    state.conversation_stage \notin Terminal =>
        \A transcript \in {state.messages}
                \cup {Append(state.messages, HumanMessage(text)) : text \in MalformedTexts} :
            LET s == [state EXCEPT !.messages = transcript]
                returned == node(s.conversation_stage, s).state
            IN  /\ strictly_later(returned.conversation_stage, s.conversation_stage)
                /\ (s.conversation_stage = "scale" /\ first_number(last_content(s)) = None) =>
                       /\ returned.headcount = None
                       /\ returned.meets_minimum = None

\* C23 witness: a session that has passed the scale stage on a message without
\* digits, its headcount and meets_minimum still None
C23_Witness ==
    /\ state.conversation_stage \in {"frequency", "preferences"}
    /\ state.headcount = None
    /\ state.meets_minimum = None
    /\ Len(state.messages) >= 2
    /\ first_number(state.messages[Len(state.messages) - 1].content) = None

\* C24: a session in which the user has accepted contact and given an email
\* reaches complete: once email_collection has set the stage to handoff, the
\* next turn runs the handoff node, which appends the closing message and sets
\* the stage to complete; so no turn of the graph that has returned without a
\* stage transition leaves the session in handoff
C24_HandoffTurnCompletes ==
    (/\ invocation.status \in Finished
     /\ invocation.supersteps >= 1
     /\ invocation.transitions = 0)
        => state.conversation_stage # "handoff"

----------------------------------------------------------------------------
(* The claims about the lead record and the handoff *)

\* C29: the lead record email_collection passes to the Notification Sink
\* carries the session's values at that moment: its email is the trimmed last
\* user message and the stored contact_email, its city and state are
\* location_city and location_state, its need_type is user_need, and its
\* headcount, timing, frequency, cuisine_preferences, in_service_area,
\* meets_minimum and status are the state's fields of those names
C29_LeadRecordCarriesSession ==
    [][Len(sent') = Len(sent) + 1 =>
          LET lead == sent'[Len(sent')].lead_data
          IN  /\ lead.contact.email = strip(last_content(state))
              /\ state'.contact_email = Some(lead.contact.email)
              /\ lead.requirements.location.city = state'.location_city
              /\ lead.requirements.location.state = state'.location_state
              /\ lead.requirements.need_type = state'.user_need
              /\ lead.requirements.headcount = state'.headcount
              /\ lead.requirements.timing = state'.timing
              /\ lead.requirements.frequency = state'.frequency
              /\ lead.requirements.cuisine_preferences = state'.cuisine_preferences
              /\ lead.qualification.in_service_area = state'.is_in_service_area
              /\ lead.qualification.meets_minimum = state'.meets_minimum
              /\ state'.qualification_status = Some(lead.qualification.status)]_vars

\* C29 witness: the sink holds the lead of a session whose email was typed
\* with whitespace around it
C29_Witness ==
    /\ Len(sent) = 1
    /\ state.conversation_stage = "handoff"
    /\ sent[1].lead_data.contact.email = strip(r7)
    /\ r7 # strip(r7)
    /\ sent[1].lead_data.requirements.headcount = state.headcount

\* a call of the Notification Sink has failed in this session
sink_failed == tool_call.name = "send_notification"

\* the transcript shows the summary email_collection appends
summary_shown ==
    \E i \in DOMAIN state.messages :
        /\ state.messages[i].type = "ai"
        /\ IsPrefix(summary_1, state.messages[i].content)

\* C25: a failure of the Notification Sink call of email_collection, raised
\* or reported, is not fatal: the node still appends the summary and sets the
\* stage to handoff, and the sink is not called a second time for the session
C25_SinkFailureIsNotFatal ==
    sink_failed =>
        /\ state.conversation_stage \in {"handoff", "complete"}
        /\ summary_shown
        /\ Len(sent) = 1

\* C30: ready_for_handoff is false in the initial state, and in every
\* reachable state, those after a failed sink call included, it is true only
\* if qualification_status has been computed and the Notification Sink has
\* been called for the session
C30_ReadyOnlyAfterNotification ==
    /\ state.messages = << >> => ~state.ready_for_handoff
    /\ state.ready_for_handoff =>
           /\ state.qualification_status # None
           /\ Len(sent) >= 1

\* C30 witness: the state a caller sees after the sink has raised: ready for
\* handoff, qualified, the sink called, the stage still email_collection
C30_Witness ==
    /\ sink_failed
    /\ tool_call.result = "raised"
    /\ state.ready_for_handoff
    /\ state.conversation_stage = "email_collection"
    /\ Len(sent) = 1

----------------------------------------------------------------------------
(* The claims about the tool-calling agent *)

\* some function or graph of the tool-calling agent can run or has run
agent_can_run ==
    \/ tools_agent.module.status = "loaded"
    \/ tools_agent.graph = "compiled"
    \/ tools_agent.called # {}
    \/ tools_agent.run.status # "idle"

\* C26: if the reference data file is missing, unreadable, not valid JSON or
\* lacks the service_areas or the restaurant_partners table, the import of the
\* tools module fails, so that no lookup function and no agent graph ever
\* runs with partial reference data
C26_PartialDataRefusesToStart ==
    /\ (tools_agent.data_file # "complete" /\ tools_agent.imports > 0)
           => tools_agent.module.status = "failed"
    /\ agent_can_run =>
           /\ tools_agent.data_file = "complete"
           /\ {"SERVICE_AREAS_JSON", "RESTAURANT_PARTNERS_JSON"} \subseteq tools_agent.module.bound

\* C26 witness: a file with service_areas and without restaurant_partners: the
\* import of agent.py has failed after the first table was bound
C26_Witness ==
    /\ tools_agent.data_file = "no_restaurant_partners"
    /\ tools_agent.imports = MaxImports
    /\ tools_agent.module.status = "failed"
    /\ "SERVICE_AREAS_JSON" \in tools_agent.module.bound
    /\ tools_agent.graph = "failed"

\* C27: if the call of the external model fails during a turn, the turn fails
\* for its caller and the stored message list is what it was before the call:
\* no partial or empty assistant message is appended
C27_ModelFailureLeavesMessages ==
    [][(~tools_agent.run.model_failed /\ tools_agent'.run.model_failed)
          => /\ tools_agent'.run.status = "failed"
             /\ tools_agent'.messages = tools_agent.messages
             /\ tools_agent'.run.messages = tools_agent.run.messages]_vars

\* C27 witness: the model has failed in the second turn after a round of
\* tools: the turn has failed and the stored list ends with the user's message
C27_Witness ==
    /\ tools_agent.run.model_failed
    /\ tools_agent.run.status = "failed"
    /\ tools_agent.run.rounds >= 1
    /\ tools_agent.turns = 2
    /\ Len(tools_agent.messages) >= 3
    /\ tools_agent.messages[Len(tools_agent.messages)].type = "human"

----------------------------------------------------------------------------
(* The claims about sessions that run side by side *)

----------------------------------------------------------------------------
(* The claims about the fields of the ConversationState *)

\* C31: in every reachable state frequency is populated only if user_need is
\* recurring: for a one-time or exploring session frequency is None from the
\* initial state to the terminal stage
C31_FrequencyOnlyForRecurring ==
    state.frequency # None => state.user_need = Some("recurring")

\* C31 witness: a session that is not recurring has counted its people and
\* reached a terminal stage, and its frequency is None
C31_Witness ==
    /\ state.user_need \in {Some("one-time"), Some("exploring")}
    /\ state.headcount # None
    /\ state.conversation_stage \in Terminal
    /\ state.frequency = None

\* the stages before the location has been looked at
BeforeTiming == {"greeting", "discovery", "location"}

\* C32: is_in_service_area is None in every reachable state whose stage is
\* greeting, discovery or location, and is true or false, never None, in
\* every reachable state whose stage is timing or later
C32_ServiceAreaKnownFromTiming ==
    IF state.conversation_stage \in BeforeTiming
    THEN state.is_in_service_area = None
    ELSE state.is_in_service_area \in {Some(TRUE), Some(FALSE)}

\* C32 witness: a session past the location stage whose message named no
\* city of the table: is_in_service_area is false
C32_Witness ==
    /\ state.conversation_stage = "timing"
    /\ state.is_in_service_area = Some(FALSE)
    /\ state.location_city = None

\* C33: in every reachable state whose stage is handoff or complete,
\* contact_email is populated, neither None nor the empty string, and in every
\* state whose stage is before handoff or is end, contact_email is None
C33_HandoffHasContactEmail ==
    IF state.conversation_stage \in {"handoff", "complete"}
    THEN state.contact_email # None /\ state.contact_email # Some(<< >>)
    ELSE state.contact_email = None

----------------------------------------------------------------------------
(* The claims about what the stage nodes read in a message *)

\* the words of a one-time need: meeting, event, one-time, once
one_time_keywords ==
    {<<"m","e","e","t","i","n","g">>,
     <<"e","v","e","n","t">>,
     <<"o","n","e","-","t","i","m","e">>,
     <<"o","n","c","e">>}

\* the words of a recurring need: recurring, daily, weekly, program, regular
recurring_keywords ==
    {<<"r","e","c","u","r","r","i","n","g">>,
     <<"d","a","i","l","y">>,
     <<"w","e","e","k","l","y">>,
     <<"p","r","o","g","r","a","m">>,
     <<"r","e","g","u","l","a","r">>}

\* the words of consent: yes, sure, please
consent_keywords ==
    {<<"y","e","s">>,
     <<"s","u","r","e">>,
     <<"p","l","e","a","s","e">>}

\* the text holds one of the words, in any letter case
mentions(words, text) == \E word \in words : contains(word, lower(text))

\* the node of a stage has run in its stage in this step: the state has
\* changed and the user has said nothing new
node_ran(stage) ==
    /\ state.conversation_stage = stage
    /\ state' # state
    /\ human_texts(state'.messages) = human_texts(state.messages)

\* C34: the discovery stage classifies the last message by case-insensitive
\* substring match: one-time if it holds meeting, event, one-time or once,
\* otherwise recurring if it holds recurring, daily, weekly, program or
\* regular, otherwise exploring; the one-time words take precedence, user_need
\* is one of the three values afterwards and the stage becomes location
C34_DiscoveryClassifiesNeed ==
    [][node_ran("discovery")
         => LET text == last_content(state)
            IN  /\ state'.user_need =
                      Some(IF mentions(one_time_keywords, text) THEN "one-time"
                           ELSE IF mentions(recurring_keywords, text) THEN "recurring"
                           ELSE "exploring")
                /\ state'.user_need \in {Some("one-time"), Some("recurring"), Some("exploring")}
                /\ state'.conversation_stage = "location"]_vars

\* C34 witness: 'weekly team meeting' holds a word of each kind and the need
\* is one-time
C34_Witness ==
    /\ state.conversation_stage = "location"
    /\ human_texts(state.messages) = <<d1>>
    /\ state.user_need = Some("one-time")

\* C35: the contact_capture stage moves to email_collection exactly when the
\* last message holds yes, sure or please in any letter case, and otherwise to
\* the terminal stage end; either way one assistant message is appended; and
\* a session that went to end has set no contact_email, no
\* qualification_status, no ready_for_handoff and has not called the sink
C35_ContactCaptureBranches ==
    [][/\ node_ran("contact_capture")
          => /\ state'.conversation_stage =
                  IF mentions(consent_keywords, last_content(state))
                  THEN "email_collection" ELSE "end"
             /\ Len(state'.messages) = Len(state.messages) + 1
             /\ state'.messages[Len(state'.messages)].type = "ai"
             /\ SubSeq(state'.messages, 1, Len(state.messages)) = state.messages
       /\ state'.conversation_stage = "end"
          => /\ state'.contact_email = None
             /\ state'.qualification_status = None
             /\ ~state'.ready_for_handoff
             /\ sent' = << >>]_vars

\* C35 witness: 'yesterday' holds yes and the session has moved on to
\* email_collection
C35_Witness ==
    /\ state.conversation_stage = "email_collection"
    /\ human_texts(state.messages)[Len(human_texts(state.messages))] = c5

\* the keys of the table of location_node a message holds in any letter case
cities_named(text) ==
    {k \in DOMAIN service_cities : contains(lower(service_cities[k][1]), lower(text))}

\* C36: location matching is case-insensitive and the first match in table
\* order wins: a message that holds a city key of the table in any letter
\* case sets is_in_service_area to true, and the city and the state recorded
\* are those of the first entry of the table the message holds
C36_LocationMatchesAnyCase ==
    [][node_ran("location")
         => LET named == cities_named(last_content(state))
            IN  named # {}
                  => LET k == CHOOSE i \in named : \A j \in named : i <= j
                     IN  /\ state'.is_in_service_area = Some(TRUE)
                         /\ state'.location_city = Some(title(service_cities[k][1]))
                         /\ state'.location_state = Some(service_cities[k][2])]_vars

----------------------------------------------------------------------------
(* The claims about the two graphs *)

\* a step of an invocation that runs a node as a no-op and is routed to the
\* same node again: the next step is the same step
reentered_as_noop ==
    /\ invocation.status = "running"
    /\ invocation'.supersteps = invocation.supersteps + 1
    /\ state' = state
    /\ invocation'.node = invocation.node

\* C37: every invocation of the compiled stage graph terminates: from the
\* entry node greeting, following route_conversation after each node, END is
\* reached after finitely many node executions and no node is re-entered
\* again and again as a no-op
C37_InvocationReachesEnd ==
    [][~reentered_as_noop /\ invocation'.status # "error"]_vars

\* C38: route_conversation has an entry of its stage map for every value a
\* node writes into conversation_stage, every target it returns that is not
\* END is a node build_graph registers, and no reachable stage that is not
\* terminal falls through to the default END
C38_StageMapCoversStages ==
    /\ state.conversation_stage \in stage_map_keys
    /\ route_conversation(state) \in Nodes \cup {END}
    /\ (state.conversation_stage \notin Terminal /\ state.conversation_stage # "handoff")
          => route_conversation(state) # END

\* the nodes a turn of the tool-calling agent has executed are agent (tools agent)*
agent_tools_alternate(trace) ==
    \A i \in DOMAIN trace : trace[i] = IF i % 2 = 1 THEN "agent" ELSE "tools"

\* C39: in the graph of the tool-calling agent a turn goes from the agent
\* node to the tools node if and only if the last message carries a tool
\* call, and otherwise ends; the tools node returns to the agent node; the
\* nodes executed in a turn are agent (tools agent)*, every tool result is
\* followed by another model call, and a turn ends only directly after a
\* reply of the model without tool calls
C39_AgentToolsLoop ==
    LET run == tools_agent.run
        last == run.messages[Len(run.messages)]
    IN  (run.status # "idle" /\ run.trace # << >>) =>
          /\ agent_tools_alternate(run.trace)
          /\ run.status = "ended"
                => /\ run.trace[Len(run.trace)] = "agent"
                   /\ last.type = "ai"
                   /\ last.tool_calls = << >>
          /\ (run.status = "running" /\ run.node = "tools")
                => /\ run.trace[Len(run.trace)] = "agent"
                   /\ last.type = "ai"
                   /\ last.tool_calls # << >>
          /\ (run.status = "running" /\ run.node = "agent")
                => /\ run.trace[Len(run.trace)] = "tools"
                   /\ last.type = "tool"
          /\ run.status = "failed" => run.trace[Len(run.trace)] = "agent"

\* C39 witness: a turn of two rounds of tools has ended after the third reply
\* of the model
C39_Witness ==
    /\ tools_agent.run.status = "ended"
    /\ tools_agent.run.trace = <<"agent", "tools", "agent", "tools", "agent">>
    /\ tools_agent.run.rounds = 2

====
